---------------------------- MODULE Spec2Model ----------------------------
(***************************************************************************)
(* A model of the dedicated shadow-synchronisation bridge of fika-utils    *)
(* (src/src/aws_iot.rs): the outer retry loop mqtt_dedicated_create_start, *)
(* one connection attempt mqtt_dedicated_start with its receive and listen *)
(* tasks, and the shadow sync engine mqtt_dedicated_handle_iot /           *)
(* post_iot_publish_msg with its version comparison against the store.     *)
(*                                                                         *)
(* Strings that are paths or topics are sequences of their '/'-separated   *)
(* segments; a JSON text is a string and parsing maps it to a value.       *)
(***************************************************************************)
EXTENDS Integers, Sequences, FiniteSets, TLC

(***************************************************************************)
(* Bounds of the model and constants of the program.                       *)
(***************************************************************************)
\* Largest in-range shadow version the broker sends in the model.
MaxVersion == 1
\* Number of local commands the local bus puts on the outbound queue.
MaxCmds == 2
\* Number of transport failures (failed connects, event-loop failures) the
\* network produces in the specifications that bound them.
MaxDrops == 2
MaxRuns == 2
MaxProvMsgs == 2
MaxInbound == 3
\* `if retry == 100 { break; }`
RetryLimit == 100
\* `time::sleep(Duration::from_secs(retry * 30))`
SleepUnit == 30
\* `version: u16`
U16Max == 65535

Min(a, b) == IF a < b THEN a ELSE b

(***************************************************************************)
(* JSON texts and values.  serde_json::from_str maps a text to a value     *)
(* (or fails); serde_json::to_string writes a value in its compact form,   *)
(* so a text with extra white space parses to the value of the compact     *)
(* text and is not written back as it was read.                            *)
(***************************************************************************)
json_from_str(t) ==
    CASE t = "{\"x\":1}"     -> [ok |-> TRUE, val |-> "obj_x1"]
      [] t = "{ \"x\" : 1 }" -> [ok |-> TRUE, val |-> "obj_x1"]
      [] t = "{\"y\":2}"     -> [ok |-> TRUE, val |-> "obj_y2"]
      [] t = "null"          -> [ok |-> TRUE, val |-> "null"]
      [] OTHER               -> [ok |-> FALSE, val |-> "none"]

json_to_string(v) ==
    CASE v = "obj_x1" -> "{\"x\":1}"
      [] v = "obj_y2" -> "{\"y\":2}"
      [] OTHER        -> "null"

(***************************************************************************)
(* Inbound payloads.  A payload is the raw bytes of a publish: empty, not  *)
(* UTF-8, or a JSON text described by the members it has.  `desired` is    *)
(* the text of state.desired ("absent" when the member is missing),        *)
(* `version` the number written under "version", `complete` whether state, *)
(* metadata, version and timestamp are all there.                          *)
(***************************************************************************)
DesiredTexts == {"absent", "null", "{ \"x\" : 1 }"}
VersionTexts == (0..MaxVersion) \cup {U16Max + 1}

DocPayloads ==
    [form : {"json"}, complete : {TRUE}, desired : DesiredTexts, version : VersionTexts]
BadPayloads ==
    { [form |-> "empty",   complete |-> FALSE, desired |-> "absent", version |-> 0],
      [form |-> "nonutf8", complete |-> FALSE, desired |-> "absent", version |-> 0],
      [form |-> "json",    complete |-> FALSE, desired |-> "{\"x\":1}", version |-> 0] }
Payloads == DocPayloads \cup BadPayloads

\* `p.payload.len() == 0`
payload_is_empty(p) == p.form = "empty"
\* `std::str::from_utf8(&p.payload)`
from_utf8_ok(p) == p.form = "json"

\* An Option<Value> member: missing and null both give None.
option_value(t) ==
    IF t = "absent" THEN [some |-> FALSE, val |-> "none"]
    ELSE LET r == json_from_str(t)
         IN  IF r.ok /\ r.val # "null" THEN [some |-> TRUE, val |-> r.val]
             ELSE [some |-> FALSE, val |-> "none"]

\* A variant whose version has one bit more than a u16.
AwsIotShadowAccept_u17(p) ==
    IF p.form = "json" /\ p.complete /\ p.version \in 0..2 * U16Max + 1
    THEN [ok |-> TRUE, desired |-> option_value(p.desired), version |-> p.version]
    ELSE [ok |-> FALSE, desired |-> [some |-> FALSE, val |-> "none"], version |-> 0]
\* serde_json::from_str::<AwsIotShadowAccept>: every member must be there
\* and version must fit a u16.
AwsIotShadowAccept(p) ==
    IF p.form = "json" /\ p.complete /\ p.version \in 0..U16Max
    THEN [ok |-> TRUE, desired |-> option_value(p.desired), version |-> p.version]
    ELSE [ok |-> FALSE, desired |-> [some |-> FALSE, val |-> "none"], version |-> 0]

(***************************************************************************)
(* Inbound topics.                                                         *)
(***************************************************************************)
Thing == "dev1"
AcceptedTopics ==
    { <<"$aws", "things", Thing, "shadow", "name", "n1", "update", "accepted">>,
      <<"$aws", "things", Thing, "shadow", "name", "n1", "get", "accepted">>,
      <<"$aws", "things", Thing, "shadow", "name1", "update", "accepted">> }
RejectedTopics ==
    { <<"$aws", "things", Thing, "shadow", "name", "n1", "get", "rejected">>,
      <<"$aws", "things", Thing, "shadow", "name", "n1", "update", "rejected">>,
      <<"$aws", "things", Thing, "shadow", "name", "n1", "delete", "rejected">>,
      <<"$aws", "things", Thing, "shadow", "name", "n1", "get", "accepted", "update", "rejected">> }
OtherTopics ==
    { <<"$aws", "things", Thing, "shadow", "name", "n1", "update", "delta">>,
      <<"$aws", "things", Thing, "jobs", "notify">> }
InTopics == AcceptedTopics \cup RejectedTopics \cup OtherTopics

\* `topic.find("/a/b").is_some()`: segment a, with a '/' before it, followed
\* by a segment that starts with b (the segments of the model are whole words).
topic_find(topic, a, b) ==
    \E i \in 2..(Len(topic) - 1) : topic[i] = a /\ topic[i + 1] = b

\* A variant of is_rejected without the test for /update/rejected.
is_rejected_two(topic) ==
    \/ topic_find(topic, "get", "rejected")
    \/ topic_find(topic, "delete", "rejected")

is_rejected(topic) ==
    \/ topic_find(topic, "get", "rejected")
    \/ topic_find(topic, "update", "rejected")
    \/ topic_find(topic, "delete", "rejected")

\* A variant that also takes /update/delta.
is_accepted_delta(topic) ==
    \/ topic_find(topic, "get", "accepted")
    \/ topic_find(topic, "update", "accepted")
    \/ topic_find(topic, "update", "delta")
is_accepted(topic) ==
    \/ topic_find(topic, "get", "accepted")
    \/ topic_find(topic, "update", "accepted")

\* A variant that skips two segments only.
sub_topic_skip2(topic) ==
    <<"aws/kap">> \o SubSeq(topic, 3, Min(Len(topic), 5))
\* `topic.split('/').skip(3).take(3).fold(String::from("aws/kap"), ...)`
sub_topic(topic) ==
    <<"aws/kap">> \o SubSeq(topic, 4, Min(Len(topic), 6))

Keys == { sub_topic(t) : t \in AcceptedTopics }


(***************************************************************************)
(* The store (DbCommand::Get / DbCommand::Set over db_chan, answered on a  *)
(* oneshot channel) and the downstream channel subscribe_ipc_tx.  A record *)
(* of the store is the raw payload last written under a key.               *)
(***************************************************************************)
NoRecord == [form |-> "none", complete |-> FALSE, desired |-> "absent", version |-> 0]
StoreValues == {NoRecord} \cup Payloads

\* What the environment does to one handling of a message: whether the store's
\* request channel closes before the Get or before the Set, whether each
\* answer arrives, and whether the downstream channel closes before the send.
QuietEnv ==
    [dbCloseAt |-> "never", getResp |-> "ok", setResp |-> "ok", subClose |-> FALSE]
HandlerEnvs ==
    { QuietEnv,
      [QuietEnv EXCEPT !.dbCloseAt = "get"],
      [QuietEnv EXCEPT !.dbCloseAt = "set"],
      [QuietEnv EXCEPT !.getResp = "lost"],
      [QuietEnv EXCEPT !.setResp = "lost"],
      [QuietEnv EXCEPT !.setResp = "lost_applied"],
      [QuietEnv EXCEPT !.getResp = "lost", !.setResp = "lost"],
      [QuietEnv EXCEPT !.subClose = TRUE] }

\* Variants of shadow_version_compare: `>` for `>=`, and no comparison at all.
shadow_version_compare_gt(st, dbUp, getResp, key, version) ==
    IF ~dbUp THEN [err |-> TRUE, update |-> FALSE]
    ELSE LET o == AwsIotShadowAccept(st[key])
         IN  IF getResp = "ok" /\ st[key] # NoRecord /\ o.ok /\ o.version > version
             THEN [err |-> FALSE, update |-> FALSE]
             ELSE [err |-> FALSE, update |-> TRUE]
shadow_version_compare_none(st, dbUp, getResp, key, version) ==
    [err |-> ~dbUp, update |-> dbUp]

\* A variant that holds a document back when the answer of the store is lost.
shadow_version_compare_strict(st, dbUp, getResp, key, version) ==
    IF ~dbUp THEN [err |-> TRUE, update |-> FALSE]
    ELSE IF getResp # "ok" THEN [err |-> FALSE, update |-> FALSE]
    ELSE LET o == AwsIotShadowAccept(st[key])
         IN  IF st[key] # NoRecord /\ o.ok /\ o.version >= version
             THEN [err |-> FALSE, update |-> FALSE]
             ELSE [err |-> FALSE, update |-> TRUE]

\* shadow_version_compare: Err when the Get cannot be sent; Ok(false) only
\* when an answer arrives, holds a record, the record parses and its version
\* is >= the incoming one; Ok(true) otherwise.
shadow_version_compare(st, dbUp, getResp, key, version) ==
    IF ~dbUp THEN [err |-> TRUE, update |-> FALSE]
    ELSE LET o == AwsIotShadowAccept(st[key])
         IN  IF getResp = "ok" /\ st[key] # NoRecord /\ o.ok /\ o.version >= version
             THEN [err |-> FALSE, update |-> FALSE]
             ELSE [err |-> FALSE, update |-> TRUE]

NoEffect(st, dbUp, subUp) ==
    [ok |-> FALSE, gets |-> <<>>, notifies |-> <<>>, sets |-> <<>>, ops |-> <<>>,
     store |-> st, dbOpen |-> dbUp, subOpen |-> subUp]

\* A variant that writes only what was forwarded.
post_iot_store_forwarded(st, key, payload, e, pre) ==
    LET dbUp == pre.dbOpen /\ e.dbCloseAt # "set"
    IN  IF ~dbUp
        THEN [pre EXCEPT !.ok = FALSE, !.dbOpen = FALSE]
        ELSE IF pre.notifies = <<>> THEN pre
        ELSE [pre EXCEPT
                !.ok    = (e.setResp = "ok"),
                !.sets  = <<[key |-> key, val |-> payload]>>,
                !.ops   = Append(@, "set"),
                !.store = IF e.setResp = "lost" THEN st
                          ELSE [st EXCEPT ![key] = payload]]
\* The Set at the end of post_iot_publish_msg, after `pre` has happened.
\* `ops` is the order in which the requests were sent.
post_iot_store(st, key, payload, e, pre) ==
    LET dbUp == pre.dbOpen /\ e.dbCloseAt # "set"
    IN  IF ~dbUp
        THEN [pre EXCEPT !.ok = FALSE, !.dbOpen = FALSE]
        ELSE [pre EXCEPT
                !.ok    = (e.setResp = "ok"),
                !.sets  = <<[key |-> key, val |-> payload]>>,
                !.ops   = Append(@, "set"),
                !.store = IF e.setResp = "lost" THEN st
                          ELSE [st EXCEPT ![key] = payload]]

\* SubscribeCmd::Notify { topic: format!("{}/{}", &sub_topic, "state"),
\*                        msg: serde_json::to_string(&desired) }
NotifyBareKey(key, desired) == [topic |-> key, msg |-> json_to_string(desired)]
Notify(key, desired) == [topic |-> key \o <<"state">>, msg |-> json_to_string(desired)]

\* post_iot_publish_msg(db_chan, subscribe_ipc_tx, topic, payload)
post_iot_publish_msg(st, dbOpen0, subOpen0, topic, payload, e) ==
    LET shadow == AwsIotShadowAccept(payload)
        key    == sub_topic(topic)
        dbGet  == dbOpen0 /\ e.dbCloseAt # "get"
        subUp  == subOpen0 /\ ~e.subClose
        cmp    == shadow_version_compare(st, dbGet, e.getResp, key, shadow.version)
        note   == Notify(key, shadow.desired.val)
        start  == [ok |-> TRUE, gets |-> <<>>, notifies |-> <<>>, sets |-> <<>>,
                   ops |-> <<>>,
                   store |-> st, dbOpen |-> dbOpen0, subOpen |-> subOpen0]
        looked == [start EXCEPT !.gets = IF dbGet THEN <<key>> ELSE <<>>,
                                !.ops = IF dbGet THEN <<"get">> ELSE <<>>,
                                !.dbOpen = dbGet]
    IN  IF ~shadow.ok THEN NoEffect(st, dbOpen0, subOpen0)
        ELSE IF ~shadow.desired.some THEN post_iot_store(st, key, payload, e, start)
        ELSE IF ~(cmp.err \/ cmp.update) THEN post_iot_store(st, key, payload, e, looked)
        ELSE IF ~subUp THEN [looked EXCEPT !.ok = FALSE, !.subOpen = FALSE]
        ELSE post_iot_store(st, key, payload, e,
                            [looked EXCEPT !.notifies = <<note>>,
                                           !.ops = Append(@, "notify")])

(***************************************************************************)
(* Inbound events of the broadcast receiver: a publish, another packet, or *)
(* a receive error (RecvError::Lagged / Closed).                           *)
(***************************************************************************)
NoTopic == <<>>
NoPayload == [form |-> "empty", complete |-> FALSE, desired |-> "absent", version |-> 0]
OtherEvent == [type |-> "other", topic |-> NoTopic, payload |-> NoPayload]
ErrorEvent == [type |-> "error", topic |-> NoTopic, payload |-> NoPayload]
Publish(t, p) == [type |-> "publish", topic |-> t, payload |-> p]

\* Documents that parse, with desired missing or present.
SamplePayloads ==
    { p \in DocPayloads : p.version \in 0..MaxVersion /\ p.desired # "null" }
FirstTopic == <<"$aws", "things", Thing, "shadow", "name", "n1", "update", "accepted">>
\* Every payload on one accepted topic, the documents that parse on the other
\* accepted topics, a document and an empty payload on every other topic.
Events ==
    { Publish(FirstTopic, p) : p \in Payloads }
    \cup { Publish(t, p) : t \in AcceptedTopics \ {FirstTopic}, p \in SamplePayloads }
    \cup { Publish(t, p) : t \in RejectedTopics \cup OtherTopics,
                          p \in { q \in SamplePayloads \cup BadPayloads :
                                    \/ q.form = "empty"
                                    \/ q.desired # "absent" /\ q.version = MaxVersion } }
    \cup {OtherEvent, ErrorEvent}
\* The documents that parse, on every accepted topic.
DocEvents == { Publish(t, p) : t \in AcceptedTopics, p \in SamplePayloads }

\* The classification of mqtt_dedicated_handle_iot, in the order of its tests.
iot_class(ev) ==
    CASE ev.type = "error"              -> "recv_error"
      [] ev.type = "other"              -> "other_packet"
      [] payload_is_empty(ev.payload)   -> "empty"
      [] is_rejected(ev.topic)          -> "rejected"
      [] ~is_accepted(ev.topic)         -> "not_accepted"
      [] ~from_utf8_ok(ev.payload)      -> "not_utf8"
      [] OTHER                          -> "post"

\* A variant that passes on the error of post_iot_publish_msg.
mqtt_dedicated_handle_iot_strict(st, dbOpen0, subOpen0, ev, e) ==
    LET c    == iot_class(ev)
        none == [NoEffect(st, dbOpen0, subOpen0) EXCEPT !.ok = TRUE]
        eff  == IF c = "post"
                THEN post_iot_publish_msg(st, dbOpen0, subOpen0, ev.topic, ev.payload, e)
                ELSE none
    IN  [ret |-> IF c \in {"recv_error", "not_utf8"} \/ ~eff.ok THEN "err" ELSE "ok",
         class |-> c, eff |-> eff]
\* mqtt_dedicated_handle_iot: its result and what it did to the store and
\* to the downstream channel.  The result of post_iot_publish_msg is dropped.
mqtt_dedicated_handle_iot(st, dbOpen0, subOpen0, ev, e) ==
    LET c    == iot_class(ev)
        none == [NoEffect(st, dbOpen0, subOpen0) EXCEPT !.ok = TRUE]
        eff  == IF c = "post"
                THEN post_iot_publish_msg(st, dbOpen0, subOpen0, ev.topic, ev.payload, e)
                ELSE none
    IN  [ret |-> IF c \in {"recv_error", "not_utf8"} THEN "err" ELSE "ok",
         class |-> c, eff |-> eff]


(***************************************************************************)
(* Local commands (AwsIotCmd) and their translation to a broker publish.   *)
(***************************************************************************)
\* The patterns of mqtt_ipc_register, as the segments between their '/'
ShadowPattern == <<"kap", "aws", "shadow", "*">>
RawPattern == <<"kap", "aws", "raw", "*">>
NoPattern == <<>>

\* redis::Msg: the pattern that matched (none for a plain subscription), the
\* channel, the payload, and whether the payload is UTF-8 (get_payload::<String>
\* is Err when it is not)
BusMsgs ==
    { [pattern |-> ShadowPattern,
       channel |-> <<"kap", "aws", "shadow", "name1", "update">>,
       payload |-> "{ \"x\" : 1 }", readable |-> TRUE],
      [pattern |-> ShadowPattern,
       channel |-> <<"kap", "aws", "shadow", "name1", "update">>,
       payload |-> "oops", readable |-> TRUE],
      [pattern |-> RawPattern,
       channel |-> <<"kap", "aws", "raw", "custom", "topic">>,
       payload |-> "oops", readable |-> TRUE],
      [pattern |-> NoPattern,
       channel |-> <<"kap", "aws", "raw", "custom", "topic">>,
       payload |-> "oops", readable |-> TRUE],
      [pattern |-> RawPattern,
       channel |-> <<"kap", "aws", "raw", "custom", "topic">>,
       payload |-> "bytes ff fe", readable |-> FALSE] }
\* `msg` is None
NoBusMsg == [pattern |-> NoPattern, channel |-> <<>>, payload |-> "", readable |-> TRUE]

\* `pattern.find("kap/aws/shadow").is_some()`
pattern_find_shadow(pattern) ==
    \E i \in 1..(Len(pattern) - 2) :
        SubSeq(pattern, i, i + 2) = <<"kap", "aws", "shadow">>

\* AwsIotCmd; `bus` is the message of the local bus it was made from
AwsIotCmd(kind, topic, msg, bus) ==
    [kind |-> kind, topic |-> topic, msg |-> msg, bus |-> bus]
ExitCmd == AwsIotCmd("Exit", <<>>, "", NoBusMsg)

\* A variant that cuts the channel one segment further.
mqtt_ipc_post_ofs(m) ==
    IF m = NoBusMsg THEN [ok |-> TRUE, send |-> FALSE, cmd |-> ExitCmd]
    ELSE IF ~m.readable THEN [ok |-> FALSE, send |-> FALSE, cmd |-> ExitCmd]
    ELSE IF m.pattern = NoPattern
    THEN [ok |-> TRUE, send |-> FALSE, cmd |-> ExitCmd]
    ELSE [ok |-> TRUE, send |-> TRUE,
          cmd |-> AwsIotCmd(IF pattern_find_shadow(m.pattern) THEN "ShadowUpdate"
                            ELSE "RawUpdate",
                            SubSeq(m.channel, Len(m.pattern) + 1, Len(m.channel)),
                            m.payload, m)]
\* mqtt_ipc_post: its result before the send, and the command sent on
\* aws_ipc_tx, if any.  None is Ok; `msg.get_payload()?` comes first; a
\* message without a pattern is Ok.  `ofs` is the length of the pattern
\* without its '*': the segments before the '*'.
mqtt_ipc_post(m) ==
    IF m = NoBusMsg THEN [ok |-> TRUE, send |-> FALSE, cmd |-> ExitCmd]
    ELSE IF ~m.readable THEN [ok |-> FALSE, send |-> FALSE, cmd |-> ExitCmd]
    ELSE IF m.pattern = NoPattern
    THEN [ok |-> TRUE, send |-> FALSE, cmd |-> ExitCmd]
    ELSE LET ofs == Len(m.pattern) - 1
         IN  [ok |-> TRUE, send |-> TRUE,
              cmd |-> AwsIotCmd(IF pattern_find_shadow(m.pattern) THEN "ShadowUpdate"
                                ELSE "RawUpdate",
                                SubSeq(m.channel, ofs + 1, Len(m.channel)),
                                m.payload, m)]

\* The commands that reach the outbound queue: the ones mqtt_ipc_post makes
\* and Exit
CmdInputs ==
    { mqtt_ipc_post(m).cmd : m \in { b \in BusMsgs : mqtt_ipc_post(b).send } }
        \cup { ExitCmd }

\* SystemTime::now() as (seconds, milliseconds within the second)
Clock == { <<1700000000, 5>> }

\* A variant that takes a raw topic as it is.
TopicType_to_string_verbatim(kind, topic, thing) ==
    IF kind = "Raw" THEN topic
    ELSE <<"$aws", "things", thing, "shadow">> \o topic \o <<"update">>
\* TopicType::to_string
TopicType_to_string(kind, topic, thing) ==
    IF kind = "Raw" THEN <<"$aws">> \o topic
    ELSE <<"$aws", "things", thing, "shadow">> \o topic \o <<"update">>

\* A variant that reports null when the message is not JSON.
post_ipc_msg_lenient(cmd, thing, now) ==
    CASE cmd.kind = "ShadowUpdate" ->
           [ok |-> TRUE,
            topic |-> TopicType_to_string("ShadowUpdate", cmd.topic, thing),
            payload |-> [wrapped |-> TRUE, reported |-> json_from_str(cmd.msg).val,
                         clientToken |-> now, raw |-> ""]]
      [] cmd.kind = "RawUpdate" ->
           [ok |-> TRUE,
            topic |-> TopicType_to_string("Raw", cmd.topic, thing),
            payload |-> [wrapped |-> FALSE, reported |-> "none",
                         clientToken |-> <<>>, raw |-> cmd.msg]]
      [] OTHER ->
           [ok |-> FALSE, topic |-> <<>>,
            payload |-> [wrapped |-> FALSE, reported |-> "none",
                         clientToken |-> <<>>, raw |-> ""]]
\* post_ipc_msg(msg, thing): Ok((topic, payload)) or Err
post_ipc_msg(cmd, thing, now) ==
    CASE cmd.kind = "ShadowUpdate" ->
           LET reported == json_from_str(cmd.msg)
           IN  [ok |-> reported.ok,
                topic |-> TopicType_to_string("ShadowUpdate", cmd.topic, thing),
                payload |-> [wrapped |-> TRUE, reported |-> reported.val,
                             clientToken |-> now, raw |-> ""]]
      [] cmd.kind = "RawUpdate" ->
           [ok |-> TRUE,
            topic |-> TopicType_to_string("Raw", cmd.topic, thing),
            payload |-> [wrapped |-> FALSE, reported |-> "none",
                         clientToken |-> <<>>, raw |-> cmd.msg]]
      [] OTHER ->
           [ok |-> FALSE, topic |-> <<>>,
            payload |-> [wrapped |-> FALSE, reported |-> "none",
                         clientToken |-> <<>>, raw |-> ""]]

(***************************************************************************)
(* State.                                                                  *)
(***************************************************************************)
VARIABLES
    pc,         \* mqtt_dedicated_create_start: "create", "running", "sleep", "returned"
    retry,      \* its `retry`
    attempts,   \* calls of mqtt_dedicated_create so far
    opened,     \* broker sessions opened so far
    drops,      \* failures produced by the network so far
    startup,    \* the startup steps of the latest attempt, in order
    result,     \* why mqtt_dedicated_create_start returned
    lastSleep,  \* seconds of the latest sleep
    recv,       \* recv_thread: "none", "start", "select", "ipc", "done"
    listen,     \* listen_thread: "none", "running", "done"
    permit,     \* the Notify holds a permit (notify_one with no waiter consumed it yet)
    rx,         \* who holds aws_ipc_rx: "caller", "recv_task", "dropped"
    queue,      \* the outbound queue: indexes into cmds, oldest first
    inflight,   \* the publish the receive task is awaiting
    cmds,       \* every command put on the queue, in the order put
    published,  \* the publishes the broker client accepted, in order
    dropped,    \* commands taken from the queue and never published
    recvExit,   \* why the receive task of the latest attempt left its loop
    cancelAt,   \* where the receive task was when the listener raised the signal
    alive,      \* tasks spawned and not yet ended: <<attempt, task>>
    store,      \* the store: key -> raw payload
    dbOpen,     \* the store's request channel is open
    subOpen,    \* the downstream channel is open
    last,       \* the latest inbound event and what its handling did
    watch,      \* the <<key, version>> whose history is recorded (any one, fixed at the start)
    arrivals,   \* documents of the watched key and version, with desired, handled so far (2: "more than one")
    fwdCount,   \* Notify messages sent for the watched key and version (2: "more than one")
    lastVer,    \* the version of the latest document of the watched key that parsed
    calm,       \* so far every store request was answered and the versions of the
                \* watched key arrived in non-decreasing order
    disk,       \* the credential files: path -> content
    act,        \* iot_fleet_provision: its inputs, its position and its result
    prov,       \* mqtt_provision_task: the two tasks, the session and got_certificate
    ident,      \* the device identity: the configuration and the names made from it
    bus,        \* the latest message of the local bus and what mqtt_ipc_post did with it
    inbound,    \* the broadcast receiver of the receive task: the events delivered and
                \* not yet received, how many were delivered, and the requests their
                \* handling sent, in order
    mono        \* history of the watched key and version: it was forwarded or written
                \* (base), a version not above it was forwarded afterwards (late),
                \* every store request so far was answered (working)

connVars  == <<pc, retry, attempts, opened, drops, startup, result, lastSleep>>
taskVars  == <<recv, listen, permit, rx, recvExit, cancelAt, alive>>
queueVars == <<queue, inflight, cmds, published, dropped>>
storeVars == <<store, dbOpen, subOpen, last, watch, arrivals, fwdCount, lastVer, calm>>
provVars  == <<disk, act, prov>>
vars == <<connVars, taskVars, queueVars, storeVars, provVars, ident, bus, inbound, mono>>

NoFlight == [id |-> 0, topic |-> <<>>,
             payload |-> [wrapped |-> FALSE, reported |-> "none",
                          clientToken |-> <<>>, raw |-> ""]]
NoLast ==
    [class |-> "none", topic |-> NoTopic, payload |-> NoPayload, before |-> NoRecord,
     dbWas |-> TRUE, answered |-> FALSE, ret |-> "ok", ok |-> TRUE,
     gets |-> <<>>, notifies |-> <<>>, sets |-> <<>>, ops |-> <<>>]

FullStartup == <<"verify", "connect", "sub_shadow", "sub_jobs", "pull", "spawn">>

\* Nothing received from the local bus yet, nothing delivered by the broker
\* yet, nothing recorded about the watched key yet.

\* A variant that opens the session before it verifies the files.
startup_steps_connect_first(fail) ==
    CASE fail = "verify"     -> <<"connect", "verify_fail">>
      [] fail = "connect"    -> <<"connect_fail">>
      [] fail = "sub_shadow" -> <<"connect", "verify", "sub_shadow_fail">>
      [] fail = "sub_jobs"   -> <<"connect", "verify", "sub_shadow", "sub_jobs_fail">>
      [] OTHER               -> <<"connect", "verify", "sub_shadow", "sub_jobs", "pull",
                                  "spawn">>
\* The startup steps of one attempt, in the order of mqtt_dedicated_create
\* and mqtt_dedicated_start, up to the step that fails: config_verify()?,
\* AWSIoTAsyncClient::new, the two subscribe(..).await?, the publishes of
\* the pull topics (results dropped), the spawn of the two tasks.
startup_steps(fail) ==
    CASE fail = "verify"     -> <<"verify_fail">>
      [] fail = "connect"    -> <<"verify", "connect_fail">>
      [] fail = "sub_shadow" -> <<"verify", "connect", "sub_shadow_fail">>
      [] fail = "sub_jobs"   -> <<"verify", "connect", "sub_shadow", "sub_jobs_fail">>
      [] OTHER               -> FullStartup

\* Init with the store holding, under each key, one of the values of `initial`,
\* and the history of one of `watched` recorded.
InitWith(initial, watched) ==
    /\ pc = "create" /\ retry = 1 /\ attempts = 0 /\ opened = 0 /\ drops = 0
    /\ startup = <<>> /\ result = "none" /\ lastSleep = 0
    /\ recv = "none" /\ listen = "none" /\ permit = FALSE /\ rx = "caller"
    /\ recvExit = "none" /\ cancelAt = "none" /\ alive = {}
    /\ queue = <<>> /\ inflight = NoFlight /\ cmds = <<>> /\ published = <<>>
    /\ dropped = {}
    /\ store \in [Keys -> initial]
    /\ dbOpen = TRUE /\ subOpen = TRUE /\ last = NoLast
    /\ watch \in watched
    /\ arrivals = 0 /\ fwdCount = 0 /\ lastVer = -1 /\ calm = TRUE
    /\ bus = [seen |-> FALSE, msg |-> NoBusMsg, ok |-> TRUE, sent |-> FALSE]
    /\ inbound = [q |-> <<>>, sent |-> 0, outs |-> <<>>]
    /\ mono = [base |-> FALSE, late |-> FALSE, working |-> TRUE]


(***************************************************************************)
(* mqtt_dedicated_create_start: the retry loop.  One action takes the loop *)
(* from its head to the next point where it waits: a failed                *)
(* mqtt_dedicated_create, a failed subscription in mqtt_dedicated_start,   *)
(* or the spawn of the two tasks.                                          *)
(***************************************************************************)
\* A variant of the test that ends the loop one round late.
RetryExhaustedLate(r) == r = RetryLimit + 1
\* `retry = retry + 1; if retry == 100 { break; }`
RetryExhausted(r) == r = RetryLimit

\* mqtt_dedicated_create fails: config_verify()? or AWSIoTAsyncClient::new
AttemptCreateFail(limit) ==
    /\ pc = "create"
    /\ drops < limit
    /\ \E why \in {"verify", "connect"} : startup' = startup_steps(why)
    /\ attempts' = attempts + 1
    /\ drops' = drops + 1
    /\ pc' = "sleep"
    /\ UNCHANGED <<retry, opened, result, lastSleep, taskVars, queueVars, storeVars, provVars, ident, bus, inbound, mono>>

\* A session opens and one of the two subscribe(..).await? of
\* mqtt_dedicated_start fails: the error leaves mqtt_dedicated_create_start
\* through `.await?`, and aws_ipc_rx, moved into the call, is dropped.
AttemptSubscribeFail ==
    /\ pc = "create"
    /\ \E which \in {"sub_shadow", "sub_jobs"} : startup' = startup_steps(which)
    /\ attempts' = attempts + 1
    /\ opened' = opened + 1
    /\ pc' = "returned"
    /\ result' = "start_err"
    /\ rx' = "dropped"
    /\ UNCHANGED <<retry, drops, lastSleep, recv, listen, permit, recvExit, cancelAt,
                   alive, queueVars, storeVars, provVars, ident, bus, inbound, mono>>

\* A session opens, both subscriptions succeed, the pull topics are published
\* (results ignored), a fresh Notify is made and the two tasks are spawned.
AttemptSpawn ==
    /\ pc = "create"
    /\ attempts' = attempts + 1
    /\ opened' = opened + 1
    /\ startup' = startup_steps("none")
    /\ pc' = "running"
    /\ recv' = "start"
    /\ listen' = "running"
    /\ permit' = FALSE
    /\ rx' = "recv_task"
    /\ recvExit' = "none"
    /\ cancelAt' = "none"
    /\ alive' = alive \cup {<<attempts + 1, "recv">>, <<attempts + 1, "listen">>}
    /\ UNCHANGED <<retry, drops, result, lastSleep, queueVars, storeVars, provVars, ident, bus, inbound, mono>>

\* A variant that waits for the receive task alone.
JoinReadyRecvOnly == recv = "done"
\* `tokio::join!(recv_thread, listen_thread)` is ready
JoinReady == recv = "done" /\ listen = "done"

\* mqtt_dedicated_start returns recv.unwrap() = Ok(aws_ipc_rx)
StartJoin ==
    /\ pc = "running"
    /\ JoinReady
    /\ pc' = "sleep"
    /\ rx' = "caller"
    /\ UNCHANGED <<retry, attempts, opened, drops, startup, result, lastSleep,
                   recv, listen, permit, recvExit, cancelAt, alive, queueVars, storeVars, provVars, ident, bus, inbound, mono>>

\* A variant that sleeps the same time after every attempt.
sleep_secs_flat(r) == SleepUnit
\* `Duration::from_secs(retry * 30)`
sleep_secs(r) == r * SleepUnit

\* A variant that starts the count again.
next_retry_reset(r) == 1
\* `retry = retry + 1`
next_retry(r) == r + 1

\* `time::sleep(retry * 30)`, `retry = retry + 1`, and the test that ends the loop
Sleep ==
    /\ pc = "sleep"
    /\ lastSleep' = sleep_secs(retry)
    /\ retry' = next_retry(retry)
    /\ IF RetryExhausted(next_retry(retry))
       THEN pc' = "returned" /\ result' = "budget" /\ rx' = "dropped"
       ELSE pc' = "create" /\ UNCHANGED <<result, rx>>
    /\ UNCHANGED <<attempts, opened, drops, startup, recv, listen, permit, recvExit,
                   cancelAt, alive, queueVars, storeVars, provVars, ident, bus, inbound, mono>>

(***************************************************************************)
(* listen_thread                                                           *)
(***************************************************************************)
\* A variant with notify_waiters() for notify_one(): no permit is stored when
\* the receive task is not waiting.
ListenFailWaiters(limit) ==
    /\ listen = "running"
    /\ drops < limit
    /\ listen' = "done"
    /\ permit' = (recv = "select")
    /\ cancelAt' = recv
    /\ drops' = drops + 1
    /\ alive' = alive \ {<<attempts, "listen">>}
    /\ UNCHANGED <<pc, retry, attempts, opened, startup, result, lastSleep,
                   recv, rx, recvExit, queueVars, storeVars, provVars, ident, bus, inbound, mono>>

\* async_event_loop_listener returns; notify.notify_one() stores a permit
\* when the receive task is not waiting on notified()
ListenFail(limit) ==
    /\ listen = "running"
    /\ drops < limit
    /\ listen' = "done"
    /\ permit' = TRUE
    /\ cancelAt' = recv
    /\ drops' = drops + 1
    /\ alive' = alive \ {<<attempts, "listen">>}
    /\ UNCHANGED <<pc, retry, attempts, opened, startup, result, lastSleep,
                   recv, rx, recvExit, queueVars, storeVars, provVars, ident, bus, inbound, mono>>

(***************************************************************************)
(* recv_thread                                                             *)
(***************************************************************************)
RecvEnds(why) ==
    /\ recv' = "done"
    /\ recvExit' = why
    /\ alive' = alive \ {<<attempts, "recv">>}

\* `iot_core_client.get_receiver().await`, then the loop's first select
RecvGetReceiver ==
    /\ recv = "start"
    /\ recv' = "select"
    /\ UNCHANGED <<connVars, listen, permit, rx, recvExit, cancelAt, alive,
                   queueVars, storeVars, provVars, ident, bus, inbound, mono>>

\* A variant of the notified arm without its `break`.
RecvNotifiedNoBreak ==
    /\ recv = "select"
    /\ permit
    /\ permit' = FALSE
    /\ UNCHANGED <<connVars, recv, listen, rx, recvExit, cancelAt, alive, queueVars,
                   storeVars, provVars, ident, bus, inbound, mono>>

\* select!: `_ = notify2.notified()`
RecvNotified ==
    /\ recv = "select"
    /\ permit
    /\ permit' = FALSE
    /\ RecvEnds("notified")
    /\ UNCHANGED <<connVars, listen, rx, cancelAt, queueVars, storeVars, provVars, ident, bus, inbound, mono>>

\* A variant that puts the command back, behind the ones that wait.
queue_requeue_failed_publish(q, id) == Append(q, id)
\* What is left on the queue after the command just taken could not be
\* published: the command is not put back.
queue_after_failed_publish(q, id) == q

\* select!: `Some(msg) = aws_ipc_rx.recv()`, then post_ipc_msg: an Exit or a
\* ShadowUpdate that is not JSON ends the loop, anything else is handed to
\* iot.publish
RecvTakeCmd ==
    /\ recv = "select"
    /\ queue # <<>>
    /\ \E now \in Clock :
         LET id == Head(queue)
             r  == post_ipc_msg(cmds[id], Thing, now)
         IN  /\ queue' = Tail(queue)
             /\ IF r.ok
                THEN /\ inflight' = [id |-> id, topic |-> r.topic, payload |-> r.payload]
                     /\ recv' = "ipc"
                     /\ UNCHANGED <<dropped, recvExit, alive>>
                ELSE /\ dropped' = dropped \cup {id}
                     /\ RecvEnds(IF cmds[id].kind = "Exit" THEN "exit" ELSE "ipc_err")
                     /\ UNCHANGED inflight
    /\ UNCHANGED <<connVars, listen, permit, rx, cancelAt, cmds, published,
                   storeVars, provVars, ident, bus, inbound, mono>>

\* `iot.publish(&topic, QoS::AtMostOnce, payload).await` is Ok
RecvPublishOk ==
    /\ recv = "ipc"
    /\ published' = Append(published, [id |-> inflight.id, attempt |-> attempts,
                                       topic |-> inflight.topic,
                                       payload |-> inflight.payload])
    /\ inflight' = NoFlight
    /\ recv' = "select"
    /\ UNCHANGED <<connVars, listen, permit, rx, recvExit, cancelAt, alive,
                   queue, cmds, dropped, storeVars, provVars, ident, bus, inbound, mono>>

\* `iot.publish(..).await` is Err: mqtt_dedicated_handle_ipc returns Err and
\* the loop breaks
RecvPublishFail ==
    /\ recv = "ipc"
    /\ dropped' = dropped \cup {inflight.id}
    /\ queue' = queue_after_failed_publish(queue, inflight.id)
    /\ inflight' = NoFlight
    /\ RecvEnds("publish_err")
    /\ UNCHANGED <<connVars, listen, permit, rx, cancelAt, cmds, published,
                   storeVars, provVars, ident, bus, inbound, mono>>

\* The ghost record of one handling.
last_of(ev, e, h) ==
    [class |-> h.class, topic |-> ev.topic, payload |-> ev.payload,
     before |-> IF h.class = "post" THEN store[sub_topic(ev.topic)] ELSE NoRecord,
     dbWas |-> dbOpen,
     answered |-> h.class = "post" /\ dbOpen /\ e.dbCloseAt # "get" /\ e.getResp = "ok",
     ret |-> h.ret, ok |-> h.eff.ok,
     gets |-> h.eff.gets, notifies |-> h.eff.notifies, sets |-> h.eff.sets,
     ops |-> h.eff.ops]

\* select!: `msg = receiver.recv()`, handled by mqtt_dedicated_handle_iot.
\* `history` says which record of the past the specification keeps: the
\* latest handling (last), or what happened so far to the documents of the
\* watched key and version (arrivals, fwdCount, lastVer, calm, mono).
RecvIotStep(events, envs, history) ==
    /\ recv = "select"
    /\ \E ev \in events :
       \E e \in (IF iot_class(ev) = "post" THEN envs ELSE {QuietEnv}) :
       \E h \in {mqtt_dedicated_handle_iot(store, dbOpen, subOpen, ev, e)} :
         LET doc == AwsIotShadowAccept(ev.payload)
             key == sub_topic(ev.topic)
             parsed == h.class = "post" /\ doc.ok
         IN  /\ store' = h.eff.store
             /\ dbOpen' = h.eff.dbOpen
             /\ subOpen' = h.eff.subOpen
             /\ IF history
                THEN /\ last' = NoLast
                     /\ arrivals' =
                          IF parsed /\ doc.desired.some /\ <<key, doc.version>> = watch
                          THEN Min(arrivals + 1, 2) ELSE arrivals
                     /\ fwdCount' =
                          IF h.eff.notifies # <<>> /\ <<key, doc.version>> = watch
                          THEN Min(fwdCount + 1, 2) ELSE fwdCount
                     /\ lastVer' = IF parsed /\ key = watch[1] THEN doc.version
                                   ELSE lastVer
                     /\ calm' = /\ calm
                                /\ parsed => /\ key = watch[1] => doc.version >= lastVer
                                             /\ h.eff.dbOpen
                                             /\ (h.eff.gets # <<>> => e.getResp = "ok")
                                             /\ (h.eff.sets # <<>> => e.setResp = "ok")
                     /\ mono' =
                          [base |-> \/ mono.base
                                    \/ /\ parsed /\ <<key, doc.version>> = watch
                                       /\ \/ h.eff.notifies # <<>>
                                          \/ h.eff.store[key] = ev.payload,
                           late |-> \/ mono.late
                                    \/ /\ mono.base /\ parsed /\ key = watch[1]
                                       /\ doc.version <= watch[2]
                                       /\ h.eff.notifies # <<>>,
                           working |-> /\ mono.working
                                       /\ parsed => /\ h.eff.dbOpen
                                                    /\ (h.eff.gets # <<>> => e.getResp = "ok")
                                                    /\ (h.eff.sets # <<>> => e.setResp = "ok")]
                ELSE /\ last' = last_of(ev, e, h)
                     /\ UNCHANGED <<arrivals, fwdCount, lastVer, calm, mono>>
             /\ IF h.ret = "err"
                THEN RecvEnds(IF h.class = "recv_error" THEN "recv_error" ELSE "iot_err")
                ELSE UNCHANGED <<recv, recvExit, alive>>
    /\ UNCHANGED <<connVars, listen, permit, rx, cancelAt, queueVars, watch, provVars,
                   ident, bus>>

\* The same when the order of the inbound events is of no interest.
RecvIot(events, envs, history) ==
    /\ RecvIotStep(events, envs, history)
    /\ UNCHANGED inbound

\* A variant that takes the newest event of the channel.
recv_next_newest(q) == Len(q)
\* `receiver.recv()`: the oldest event of the channel
recv_next(q) == 1

\* listen_thread: the event loop hands the next event of the broker to the
\* channel of the receive task, here a document of version 0 or 1; `n` is
\* its place in the order of delivery
BrokerDeliver ==
    /\ recv \in {"select", "ipc"}
    /\ listen = "running"
    /\ inbound.sent < MaxInbound
    /\ \E v \in 0..1 :
       \E ev \in { Publish(FirstTopic,
                            [form |-> "json", complete |-> TRUE,
                             desired |-> "{\"x\":1}", version |-> v]) } :
         inbound' = [inbound EXCEPT
                       !.sent = @ + 1,
                       !.q = Append(@, [n |-> inbound.sent + 1, ev |-> ev])]
    /\ UNCHANGED <<connVars, taskVars, queueVars, storeVars, provVars, ident, bus, mono>>

\* select!: `msg = receiver.recv()` on the channel, handled by
\* mqtt_dedicated_handle_iot; `outs` lists what the handling sent, in order
RecvIotNext ==
    /\ inbound.q # <<>>
    /\ LET k == recv_next(inbound.q)
           x == inbound.q[k]
       IN  /\ RecvIotStep({x.ev}, {QuietEnv}, FALSE)
           /\ inbound' = [inbound EXCEPT
                 !.q = [i \in 1..(Len(@) - 1) |-> IF i < k THEN @[i] ELSE @[i + 1]],
                 !.outs = @ \o <<[n |-> x.n, op |-> "handle"]>>
                            \o [i \in 1..Len(last'.ops) |->
                                  [n |-> x.n, op |-> last'.ops[i]]]]

(***************************************************************************)
(* The local bus: mqtt_ipc_post puts a command on the outbound queue.      *)
(***************************************************************************)
PutCmd ==
    /\ Len(cmds) < MaxCmds
    /\ rx # "dropped"
    /\ \E c \in CmdInputs :
         /\ cmds' = Append(cmds, c)
         /\ queue' = Append(queue, Len(cmds) + 1)
    /\ UNCHANGED <<connVars, taskVars, inflight, published, dropped, storeVars, provVars, ident, bus, inbound, mono>>

\* mqtt_ipc_post(aws_ipc_tx, msg) on any message of the local bus, or none:
\* what it returns, and the command it sends; `aws_ipc_tx.send(cmd).await?`
\* is Err once the receiver is dropped
IpcPost ==
    \E m \in BusMsgs \cup {NoBusMsg} :
    \E r \in {mqtt_ipc_post(m)} :
        IF r.send /\ rx # "dropped"
        THEN /\ Len(cmds) < MaxCmds
             /\ cmds' = Append(cmds, r.cmd)
             /\ queue' = Append(queue, Len(cmds) + 1)
             /\ bus' = [seen |-> TRUE, msg |-> m, ok |-> TRUE, sent |-> TRUE]
             /\ UNCHANGED <<connVars, taskVars, inflight, published, dropped, storeVars,
                            provVars, ident, inbound, mono>>
        ELSE /\ bus' = [seen |-> TRUE, msg |-> m, ok |-> r.ok /\ ~r.send, sent |-> FALSE]
             /\ UNCHANGED <<connVars, taskVars, queueVars, storeVars, provVars, ident,
                            inbound, mono>>

(***************************************************************************)
(* The device identity: the MAC parameter of the provision request and the *)
(* thing name.  A string is the sequence of its characters.                *)
(***************************************************************************)
MaxMacLen == 4

\* The characters of the MAC addresses tried: a lower-case and an upper-case
\* hexadecimal letter, a digit, the colon, and an upper-case letter outside
\* ASCII (U+00C9, whose lower case is U+00E9).
\* str::to_ascii_lowercase lowers the ASCII letters only, str::to_lowercase
\* every letter
to_ascii_lowercase(str) ==
    [i \in 1..Len(str) |-> IF str[i] = "A" THEN "a" ELSE str[i]]
to_lowercase(str) ==
    [i \in 1..Len(str) |-> CASE str[i] = "A"      -> "a"
                             [] str[i] = "U+00C9" -> "U+00E9"
                             [] OTHER             -> str[i]]

\* `s.split(':')`: the parts between the colons, empty ones included
RECURSIVE split_colon(_, _)
split_colon(str, part) ==
    IF str = <<>> THEN <<part>>
    ELSE IF Head(str) = ":" THEN <<part>> \o split_colon(Tail(str), <<>>)
    ELSE split_colon(Tail(str), Append(part, Head(str)))

\* `.collect::<String>()` of the parts
RECURSIVE collect(_)
collect(parts) ==
    IF parts = <<>> THEN <<>> ELSE Head(parts) \o collect(Tail(parts))

\* `s.replace(":", "")`
RECURSIVE remove_colons(_)
remove_colons(str) ==
    IF str = <<>> THEN <<>>
    ELSE IF Head(str) = ":" THEN remove_colons(Tail(str))
    ELSE <<Head(str)>> \o remove_colons(Tail(str))

\* A variant that lowercases the first part only.
provision_mac_first_part(mac) ==
    LET parts == split_colon(mac, <<>>)
    IN  collect([i \in 1..Len(parts) |->
                   IF i = 1 THEN to_ascii_lowercase(parts[i]) ELSE parts[i]])
\* mqtt_provision_task: `mac_address.split(':').map(|e|
\* e.to_ascii_lowercase()).collect::<String>()`
provision_mac(mac) ==
    LET parts == split_colon(mac, <<>>)
    IN  collect([i \in 1..Len(parts) |-> to_ascii_lowercase(parts[i])])

\* RuleAwsIotConfig::thing_name(postfix): the configured name, or
\* `format!("{}_{}", prefix, postfix.to_lowercase().replace(":", ""))`
\* with the prefix "Fake" when the rule has no provision section
thing_name(thing, prefix, postfix) ==
    IF thing # "" THEN <<thing>>
    ELSE <<IF prefix # "" THEN prefix ELSE "Fake", "_">>
            \o remove_colons(to_lowercase(postfix))

\* No identity computed yet; dedicated.thing and provision.thing_prefix are
\* "" when the option is None.
NoIdent ==
    [mac |-> <<>>, thing |-> "", prefix |-> "",
     named |-> FALSE, name |-> <<>>, asked |-> FALSE, provMac |-> <<>>]
Identities ==
    { [NoIdent EXCEPT !.mac = m, !.thing = t, !.prefix = x] :
        m \in UNION { [1..n -> {"a", "A", "1", ":", "U+00C9"}] : n \in 0..MaxMacLen },
        t \in {"", "myThing"}, x \in {"", "KAP"} }

(***************************************************************************)
(* The credential files: RuleAwsIotDedicatedConfig::config_verify,         *)
(* AwsIotKeyCertificate::save and AwsIotKeyCertificate::reload.            *)
(***************************************************************************)
\* A path is the sequence of its pieces, every ".pem" a piece of its own.
DedicatedPrivate == <<"/userdata/production.private-key", ".pem">>
DedicatedCa == <<"/etc/fika_manager/AmazonRootCA1", ".pem">>
CertPaths ==
    { <<"/userdata/production.certificate", ".pem">>,
      <<"/userdata/production.certificate", ".crt">> }

\* `s.replace(from, to)`
str_replace(s, from, to) ==
    [i \in 1..Len(s) |-> IF s[i] = from THEN to ELSE s[i]]

\* `cert_path.replace(".pem", ".info")`
info_path(cert_path) == str_replace(cert_path, ".pem", ".info")

Paths ==
    CertPaths \cup { info_path(c) : c \in CertPaths }
              \cup { DedicatedPrivate, DedicatedCa }

\* Option<DateTime<Utc>>: seconds and nanoseconds, or None
NoTime == <<-1, 0>>
\* Utc::now()
ProvClock == { <<1700000000, 123456789>> }

\* A variant that writes the time with milliseconds only.
DateTime_to_string_millis(t) ==
    IF t = NoTime THEN <<"null", 0, 0>>
    ELSE <<"rfc3339", t[1], (t[2] \div 1000000) * 1000000>>
\* serde of Option<DateTime<Utc>>: RFC 3339 text with all the digits of the
\* nanoseconds, or null
DateTime_to_string(t) ==
    IF t = NoTime THEN <<"null", 0, 0>> ELSE <<"rfc3339", t[1], t[2]>>
DateTime_from_str(x) ==
    IF x[1] = "rfc3339" THEN <<x[2], x[3]>> ELSE NoTime

\* struct AwsIotKeyCertificate, as the broker issued it under an id
AwsIotKeyCertificate(id) ==
    [certificate_id |-> id,
     certificate_pem |-> <<"pem", id>>,
     private_key |-> <<"key", id>>,
     certificate_ownership_token |-> <<"token", id>>,
     issue_time |-> NoTime]
NoCertificate == AwsIotKeyCertificate("")

\* What a file holds: nothing (no such file), no byte, a certificate, a key,
\* or the JSON text of an AwsIotKeyCertificate (camelCase fields).
Missing == [kind |-> "missing", id |-> "", issueTime |-> <<"null", 0, 0>>]
EmptyFile == [kind |-> "empty", id |-> "", issueTime |-> <<"null", 0, 0>>]
PemText(pem) == [kind |-> pem[1], id |-> pem[2], issueTime |-> <<"null", 0, 0>>]
\* serde_json::to_string(self)
credential_to_string(c) ==
    [kind |-> "json", id |-> c.certificate_id,
     issueTime |-> DateTime_to_string(c.issue_time)]
\* serde_json::from_str::<AwsIotKeyCertificate>
credential_from_str(text) ==
    IF text.kind = "json"
    THEN [ok |-> TRUE,
          val |-> [AwsIotKeyCertificate(text.id)
                       EXCEPT !.issue_time = DateTime_from_str(text.issueTime)]]
    ELSE [ok |-> FALSE, val |-> NoCertificate]

\* Result<(String, DateTime<Utc>)>
NoResult == [ok |-> FALSE, id |-> "", time |-> NoTime, err |-> "none"]
Ok2(id, time) == [ok |-> TRUE, id |-> id, time |-> time, err |-> "none"]
Err2(why) == [NoResult EXCEPT !.err = why]

\* config_verify: the certificate, the private key and the CA file each
\* open and are not empty
file_valid(d, path) == d[path].kind \notin {"missing", "empty"}
config_verify(d, cert, private, ca) ==
    /\ file_valid(d, cert)
    /\ file_valid(d, private)
    /\ file_valid(d, ca)

\* The places where a Save can fail: one of its three fs::write, or none.
SaveFaults == {"none", "cert", "key", "info"}

\* AwsIotKeyCertificate::save: the result, the disk it leaves and the number
\* of files written.  A write that fails leaves its file as it was.
save(d, cred, cert_path, private_path, now, failAt) ==
    LET self == [cred EXCEPT !.issue_time = now]
        d1 == [d EXCEPT ![cert_path] = PemText(self.certificate_pem)]
        d2 == [d1 EXCEPT ![private_path] = PemText(self.private_key)]
        d3 == [d2 EXCEPT ![info_path(cert_path)] = credential_to_string(self)]
    IN  CASE failAt = "cert" -> [res |-> Err2("write"), disk |-> d, writes |-> 0]
          [] failAt = "key"  -> [res |-> Err2("write"), disk |-> d1, writes |-> 1]
          [] failAt = "info" -> [res |-> Err2("write"), disk |-> d2, writes |-> 2]
          [] OTHER -> [res |-> Ok2(self.certificate_id, now), disk |-> d3,
                       writes |-> 3]

\* AwsIotKeyCertificate::reload; `cert.issue_time.unwrap()` panics on None
reload(d, cert_path) ==
    LET text == d[info_path(cert_path)]
        cert == credential_from_str(text)
    IN  CASE text.kind = "missing" -> Err2("open read fail")
          [] ~cert.ok -> Err2("json format fail")
          [] cert.val.issue_time = NoTime -> Err2("panic")
          [] OTHER -> Ok2(cert.val.certificate_id, cert.val.issue_time)

(***************************************************************************)
(* mqtt_provision_task: the ephemeral session and its two tasks.           *)
(***************************************************************************)
\* `provision.template` of the rule, and the template of another device
Template == "tmplA"
OtherTemplate == "tmplB"

\* The broker topics of the flow, as <<head, template, tail>>
CreateRequest  == <<"$aws/certificates/create/json", "", "">>
CreateAccepted == <<"$aws/certificates/create/json", "", "/accepted">>
CreateRejected == <<"$aws/certificates/create/json", "", "/rejected">>
\* format!("$aws/provisioning-templates/{}/provision/json{tail}", template)
provision_topic(template, tail) ==
    <<"$aws/provisioning-templates/", template, "/provision/json" \o tail>>

\* The four subscriptions, in the order the flow issues them.
SubscribeOrder ==
    << CreateAccepted, CreateRejected,
       provision_topic(Template, "/accepted"),
       provision_topic(Template, "/rejected") >>

\* Payloads of the broker: a new certificate, a RegisterThing response,
\* and bytes that are neither.
CertPayload  == [kind |-> "cert", id |-> "certA"]
ThingPayload == [kind |-> "thing", id |-> ""]
BadPayload   == [kind |-> "bad", id |-> ""]
NoProvPayload == [kind |-> "none", id |-> ""]

\* serde_json::from_slice::<AwsIotKeyCertificate>(&p.payload)
certificate_from_slice(p) ==
    IF p.kind = "cert" THEN [ok |-> TRUE, val |-> AwsIotKeyCertificate(p.id)]
    ELSE [ok |-> FALSE, val |-> NoCertificate]
\* serde_json::from_slice::<AwsIotThingResponse>(&p.payload)
thing_from_slice_ok(p) == p.kind = "thing"

\* What the receiver of the flow is handed
ProvPublish(t, p) == [type |-> "publish", topic |-> t, payload |-> p, pkid |-> 0]
SubAck(pkid) ==
    [type |-> "suback", topic |-> <<"", "", "">>, payload |-> NoProvPayload,
     pkid |-> pkid]
NoProvEvent ==
    [type |-> "none", topic |-> <<"", "", "">>, payload |-> NoProvPayload,
     pkid |-> 0]
ProvEvents ==
    { ProvPublish(CreateAccepted, CertPayload),
      ProvPublish(CreateAccepted, BadPayload),
      ProvPublish(provision_topic(Template, "/accepted"), ThingPayload),
      ProvPublish(provision_topic(Template, "/accepted"), BadPayload),
      ProvPublish(provision_topic(OtherTemplate, "/accepted"), ThingPayload) }


\* A variant that takes the rejected topic of the template as well.
is_template_answer(topic, template) ==
    topic \in {provision_topic(template, "/accepted"),
               provision_topic(template, "/rejected")}
\* A variant that takes the accepted topic of any template.
is_template_accepted_any(topic, template) ==
    /\ topic[1] = "$aws/provisioning-templates/"
    /\ topic[3] = "/provision/json/accepted"
\* `topic == p.topic`, topic the accepted topic of the configured template
is_template_accepted(topic, template) ==
    topic = provision_topic(template, "/accepted")

\* A variant of the SubAck arm without its third subscription.
suback_step_short(pkid) ==
    CASE pkid = 1 -> [sub |-> TRUE, topic |-> CreateRejected]
      [] pkid = 2 -> [sub |-> TRUE, topic |-> provision_topic(Template, "/accepted")]
      [] OTHER    -> [sub |-> FALSE, topic |-> CreateRequest]
\* `match s.pkid`: the next subscription, or the empty request
suback_step(pkid) ==
    CASE pkid = 1 -> [sub |-> TRUE, topic |-> CreateRejected]
      [] pkid = 2 -> [sub |-> TRUE, topic |-> provision_topic(Template, "/accepted")]
      [] pkid = 3 -> [sub |-> TRUE, topic |-> provision_topic(Template, "/rejected")]
      [] OTHER    -> [sub |-> FALSE, topic |-> CreateRequest]

\* The flow before it starts
NoProv ==
    [recv |-> "none", listen |-> "none", got |-> NoCertificate, subs |-> <<>>,
     pubs |-> <<>>, pkid |-> 0, acked |-> 0, acks |-> 0, chan |-> <<>>, msgs |-> 0,
     res |-> NoResult, lastEv |-> NoProvEvent, lastDid |-> {}, gotBefore |-> FALSE,
     wrote |-> 0, parsed |-> FALSE, listenRes |-> "none",
     answered |-> 0, rejected |-> FALSE]

\* One turn of the loop of recv_thread on the event `ev`: the flow it leaves
\* (p), the disk, and the ghost record of what it did.
provision_handle(p0, d, ev, cert_path, private_path, now, failAt) ==
    LET p == [p0 EXCEPT !.lastEv = ev, !.lastDid = {}, !.wrote = 0,
                        !.gotBefore = (p0.got # NoCertificate),
                        !.chan = Tail(p0.chan)]
        none == [prov |-> p, disk |-> d]
        ended(r, did, w) ==
            [p EXCEPT !.recv = "done", !.res = r, !.lastDid = did, !.wrote = w]
    IN  CASE ev.type = "publish" /\ ev.topic = CreateAccepted ->
               LET g == certificate_from_slice(ev.payload)
               IN  IF g.ok
                   THEN [prov |-> [p EXCEPT
                            !.got = g.val, !.parsed = TRUE,
                            !.pkid = p.pkid + 1,
                            !.pubs = Append(p.pubs,
                                [topic |-> provision_topic(Template, ""),
                                 token |-> g.val.certificate_ownership_token]),
                            !.lastDid = {"publish_provision"}],
                         disk |-> d]
                   ELSE none
          [] ev.type = "publish" /\ is_template_accepted(ev.topic, Template) ->
               IF ~thing_from_slice_ok(ev.payload)
               THEN [prov |-> ended(Err2("RegisterThing response invalid"),
                                    {"disconnect", "return"}, 0),
                     disk |-> d]
               ELSE IF p.got = NoCertificate
               THEN [prov |-> ended(Err2("no production certificate"),
                                    {"disconnect", "return"}, 0),
                     disk |-> d]
               ELSE LET s == save(d, p.got, cert_path, private_path, now, failAt)
                    IN  [prov |-> ended(s.res, {"disconnect", "save", "return"},
                                        s.writes),
                         disk |-> s.disk]
          [] ev.type = "suback" ->
               LET n == suback_step(ev.pkid)
               IN  [prov |-> [p EXCEPT
                        !.acks = p.acks + 1,
                        !.pkid = p.pkid + 1,
                        !.subs = IF n.sub
                                 THEN Append(p.subs, [topic |-> n.topic,
                                                      pkid |-> p.pkid + 1,
                                                      after |-> p.acks + 1,
                                                      on |-> ev.pkid])
                                 ELSE p.subs,
                        !.pubs = IF n.sub THEN p.pubs
                                 ELSE Append(p.pubs, [topic |-> n.topic,
                                                      token |-> <<"", "">>]),
                        !.lastDid = IF n.sub THEN {"subscribe"}
                                    ELSE {"publish_request"}],
                     disk |-> d]
          [] OTHER -> none

(***************************************************************************)
(* iot_fleet_provision and the tasks of mqtt_provision_task.               *)
(***************************************************************************)
\* iot_fleet_provision before its first call; `cert` is rule.aws.dedicated.cert
NoAct ==
    [pc |-> "start", cert |-> <<"/userdata/production.certificate", ".pem">>,
     force |-> FALSE, verified |-> FALSE, ran |-> FALSE, conns |-> 0, writes |-> 0,
     runs |-> 0, result |-> NoResult, saved |-> NoResult, signal |-> FALSE]

\* The disk of a device never provisioned, of a provisioned device, and of
\* a provisioned device that has lost its metadata file.
OldTime == <<1600000000, 0>>
FreshDisk ==
    [p \in Paths |-> IF p = DedicatedCa THEN PemText(<<"pem", "ca">>) ELSE Missing]
ProvisionedDisk(cert) ==
    save(FreshDisk, AwsIotKeyCertificate("cert0"), cert, DedicatedPrivate, OldTime,
         "none").disk
InitialDisks(cert) ==
    { FreshDisk, ProvisionedDisk(cert),
      [ProvisionedDisk(cert) EXCEPT ![info_path(cert)] = Missing] }

\* No provisioning under way, on a device never provisioned.
IdleProvision == disk = FreshDisk /\ act = NoAct /\ prov = NoProv /\ ident = NoIdent

\* aws.thing_name(&cfg.core.mac_address), called by iot_fleet_provision and
\* by mqtt_dedicated_create_start
ThingName ==
    /\ ~ident.named
    /\ ident' = [ident EXCEPT !.named = TRUE,
                              !.name = thing_name(ident.thing, ident.prefix, ident.mac)]
    /\ UNCHANGED <<connVars, taskVars, queueVars, storeVars, provVars, bus, inbound, mono>>

\* mqtt_provision_task with a provision section: the "MAC" parameter of the
\* provision request
ProvisionMac ==
    /\ ~ident.asked
    /\ ident.prefix # ""
    /\ ident' = [ident EXCEPT !.asked = TRUE, !.provMac = provision_mac(ident.mac)]
    /\ UNCHANGED <<connVars, taskVars, queueVars, storeVars, provVars, bus, inbound, mono>>

\* A variant that looks at the files only.
NeedsFlowFilesOnly(verified, force) == ~verified
\* `if rule.aws.dedicated.config_verify().await.is_ok() && force == false`
\* fails: the network flow runs
NeedsFlow(verified, force) == ~(verified /\ force = FALSE)

\* iot_fleet_provision(rule_path, config_path, force) with a credential that
\* verifies and no force: AwsIotKeyCertificate::reload, and the return
ActivateReload ==
    /\ act.pc \in {"start", "returned"}
    /\ ~act.signal
    /\ act.runs < MaxRuns
    /\ \E force \in BOOLEAN :
         LET v == config_verify(disk, act.cert, DedicatedPrivate, DedicatedCa)
         IN  /\ ~NeedsFlow(v, force)
             /\ act' = [act EXCEPT !.pc = "returned", !.force = force,
                                   !.verified = v, !.ran = FALSE, !.conns = 0,
                                   !.writes = 0, !.runs = @ + 1,
                                   !.result = reload(disk, act.cert)]
    /\ UNCHANGED <<ident, bus, inbound, mono, connVars, taskVars, queueVars, storeVars, disk, prov>>

\* iot_fleet_provision otherwise: it calls mqtt_provision_task
ActivateProvision ==
    /\ act.pc \in {"start", "returned"}
    /\ ~act.signal
    /\ act.runs < MaxRuns
    /\ \E force \in BOOLEAN :
         LET v == config_verify(disk, act.cert, DedicatedPrivate, DedicatedCa)
         IN  /\ NeedsFlow(v, force)
             /\ act' = [act EXCEPT !.pc = "flow", !.force = force,
                                   !.verified = v, !.ran = TRUE, !.conns = 0,
                                   !.writes = 0, !.runs = @ + 1,
                                   !.result = NoResult]
    /\ prov' = NoProv
    /\ UNCHANGED <<ident, bus, inbound, mono, connVars, taskVars, queueVars, storeVars, disk>>

\* activate: `_ = future_sig_c` is ready first; activate logs and returns
\* Ok(()).  main_jhandle is dropped, which detaches the task of main_task:
\* iot_fleet_provision and the tasks it spawned are where they were.
ActivateInterrupt ==
    /\ act.pc = "flow"
    /\ ~act.signal
    /\ act' = [act EXCEPT !.signal = TRUE]
    /\ UNCHANGED <<ident, bus, inbound, mono, connVars, taskVars, queueVars, storeVars, disk, prov>>

\* mqtt_provision_task: the rule has no provision section, or
\* AWSIoTAsyncClient::new is Err
ProvisionConnectFail ==
    /\ act.pc = "flow" /\ prov.recv = "none"
    /\ \E why \in {"rule without provision", "TODO"} :
         act' = [act EXCEPT !.pc = "returned", !.result = Err2(why)]
    /\ UNCHANGED <<ident, bus, inbound, mono, connVars, taskVars, queueVars, storeVars, disk, prov>>

\* mqtt_provision_task: the session opens, the first subscription is sent
\* and the two tasks are spawned
ProvisionConnect ==
    /\ act.pc = "flow" /\ prov.recv = "none"
    /\ act' = [act EXCEPT !.conns = @ + 1]
    /\ prov' = [NoProv EXCEPT !.recv = "loop", !.listen = "running", !.pkid = 1,
                              !.subs = << [topic |-> CreateAccepted, pkid |-> 1,
                                           after |-> 0, on |-> 0] >>]
    /\ UNCHANGED <<ident, bus, inbound, mono, connVars, taskVars, queueVars, storeVars, disk>>

\* listen_thread hands the receiver the acknowledgment of the oldest
\* subscription not yet acknowledged
ProvBrokerAck ==
    /\ prov.listen = "running" /\ prov.recv = "loop"
    /\ prov.acked < Len(prov.subs)
    /\ prov' = [prov EXCEPT !.acked = @ + 1,
                            !.chan = Append(@, SubAck(prov.subs[prov.acked + 1].pkid))]
    /\ UNCHANGED <<ident, bus, inbound, mono, connVars, taskVars, queueVars, storeVars, disk, act>>

\* The broker answers a request of this session: a certificate follows a
\* request on the create topic, a RegisterThing response follows a request
\* on the topic of the template.
solicited(p, ev) ==
    \/ /\ ev.topic = CreateAccepted
       /\ \E i \in 1..Len(p.pubs) : p.pubs[i].topic = CreateRequest
    \/ /\ ev.topic = provision_topic(Template, "/accepted")
       /\ \E i \in 1..Len(p.pubs) : p.pubs[i].topic = provision_topic(Template, "")

\* listen_thread hands the receiver a publish of the broker: any of
\* ProvEvents when `any`, else only an answer to a request of this session
ProvBrokerPublish(any) ==
    /\ prov.listen = "running" /\ prov.recv = "loop"
    /\ prov.msgs < MaxProvMsgs
    /\ \E ev \in ProvEvents :
         /\ any \/ solicited(prov, ev)
         /\ prov' = [prov EXCEPT !.msgs = @ + 1, !.chan = Append(@, ev)]
    /\ UNCHANGED <<ident, bus, inbound, mono, connVars, taskVars, queueVars, storeVars, disk, act>>

\* listen_thread hands the receiver the one answer of the broker to the
\* oldest request not yet answered: accepted or rejected
ProvBrokerAnswer ==
    /\ prov.listen = "running" /\ prov.recv = "loop"
    /\ prov.answered < Len(prov.pubs)
    /\ \E ev \in IF prov.pubs[prov.answered + 1].topic = CreateRequest
                  THEN { ProvPublish(CreateAccepted, CertPayload),
                         ProvPublish(CreateRejected, BadPayload) }
                  ELSE { ProvPublish(provision_topic(Template, "/accepted"),
                                     ThingPayload),
                         ProvPublish(provision_topic(Template, "/rejected"),
                                     BadPayload) } :
         prov' = [prov EXCEPT !.answered = @ + 1, !.chan = Append(@, ev),
                              !.rejected = @ \/ ev.payload = BadPayload]
    /\ UNCHANGED <<ident, bus, inbound, mono, connVars, taskVars, queueVars, storeVars, disk, act>>

\* listen_thread hands the receiver something the flow did not ask for: a
\* packet that is no SubAck, or a publish on another topic
ProvBrokerOther ==
    /\ prov.listen = "running" /\ prov.recv = "loop"
    /\ prov.msgs < MaxProvMsgs
    /\ \E ev \in { [type |-> "packet", topic |-> <<"", "", "">>,
                     payload |-> NoProvPayload, pkid |-> 0],
                    ProvPublish(provision_topic(OtherTemplate, "/accepted"),
                                ThingPayload) } :
         prov' = [prov EXCEPT !.msgs = @ + 1, !.chan = Append(@, ev)]
    /\ UNCHANGED <<ident, bus, inbound, mono, connVars, taskVars, queueVars, storeVars, disk, act>>

\* async_event_loop_listener returns Ok or Err: listen_thread logs and ends
\* with Ok(()); or the task panics and its JoinHandle gives Err
ProvListenEnd ==
    /\ prov.listen = "running"
    /\ \E r \in {"ok", "err", "panic"} :
         prov' = [prov EXCEPT !.listen = "done", !.listenRes = r]
    /\ UNCHANGED <<ident, bus, inbound, mono, connVars, taskVars, queueVars, storeVars, disk, act>>

\* recv_thread: `receiver.recv()` is Err (the receiver lagged and the oldest
\* event is gone): `Err(_) => ()`
ProvRecvLagged ==
    /\ prov.recv = "loop"
    /\ prov.chan # <<>>
    /\ prov' = [prov EXCEPT !.chan = Tail(@)]
    /\ UNCHANGED <<ident, bus, inbound, mono, connVars, taskVars, queueVars, storeVars, disk, act>>

\* recv_thread: `receiver.recv()` is Ok(event)
ProvRecvStep ==
    /\ prov.recv = "loop"
    /\ prov.chan # <<>>
    /\ \E now \in ProvClock, failAt \in SaveFaults :
       \E h \in {provision_handle(prov, disk, Head(prov.chan), act.cert,
                                  DedicatedPrivate, now, failAt)} :
         /\ failAt # "none" => "save" \in h.prov.lastDid
         /\ prov' = h.prov
         /\ disk' = h.disk
         /\ act' = IF "save" \in h.prov.lastDid
                   THEN [act EXCEPT !.saved = h.prov.res, !.writes = h.prov.wrote]
                   ELSE act
    /\ UNCHANGED <<ident, bus, inbound, mono, connVars, taskVars, queueVars, storeVars>>

\* A variant that gives up the result when the listener failed.
join_result_strict(recvRes, listenRes) ==
    IF listenRes # "ok" THEN Err2("listen thread error") ELSE recvRes
\* `match tokio::join!(recv_thread, listen_thread)`: (Ok(cert_id), Ok(_)) and
\* (Ok(cert_id), Err(e)) both give cert_id, the result of recv_thread
join_result(recvRes, listenRes) == recvRes

\* `tokio::join!(recv_thread, listen_thread)` is ready: (Ok(cert_id), Ok(_))
\* gives cert_id, which iot_fleet_provision returns or passes on with `?`
ProvisionJoin ==
    /\ act.pc = "flow"
    /\ prov.recv = "done" /\ prov.listen = "done"
    /\ act' = [act EXCEPT !.pc = "returned",
                          !.result = join_result(prov.res, prov.listenRes)]
    /\ UNCHANGED <<ident, bus, inbound, mono, connVars, taskVars, queueVars, storeVars, disk, prov>>

(***************************************************************************)
(* Specifications.                                                         *)
(***************************************************************************)
\* The inbound events of the specifications of the connection manager: the
\* ones whose handling decides whether the receive task goes on.
ConnEvents ==
    { ErrorEvent, OtherEvent,
      [type |-> "publish",
       topic |-> FirstTopic,
       payload |-> [form |-> "nonutf8", complete |-> FALSE, desired |-> "absent",
                    version |-> 0]] }

\* The bridge with its local bus and a network that fails at most MaxDrops times.
FirstWatch == <<sub_topic(FirstTopic), 0>>
Init == InitWith({NoRecord}, {FirstWatch}) /\ IdleProvision
Next ==
    \/ AttemptCreateFail(MaxDrops)
    \/ AttemptSubscribeFail
    \/ AttemptSpawn
    \/ StartJoin
    \/ Sleep
    \/ ListenFail(MaxDrops)
    \/ RecvGetReceiver
    \/ RecvNotified
    \/ RecvTakeCmd
    \/ RecvPublishOk
    \/ RecvPublishFail
    \/ RecvIot(ConnEvents, {QuietEnv}, FALSE)
    \/ PutCmd
Spec == Init /\ [][Next]_vars


\* The same scheduling with the fairness the tokio runtime gives: a task that
\* can take a step takes it, join! returns once both tasks ended, the sleep
\* ends.  Nothing obliges the network to fail, the broker to send, or the
\* local bus to put a command.
Fairness ==
    /\ WF_vars(AttemptSpawn)
    /\ WF_vars(StartJoin)
    /\ WF_vars(Sleep)
    /\ WF_vars(RecvGetReceiver)
    /\ WF_vars(RecvNotified)
    /\ WF_vars(RecvTakeCmd)
    /\ WF_vars(RecvPublishOk \/ RecvPublishFail)
SpecFair == Init /\ [][Next]_vars /\ Fairness

\* The retry loop alone: a silent local bus, and a network that may fail every
\* attempt, as often as the loop retries.
NextRetry ==
    \/ AttemptCreateFail(RetryLimit)
    \/ AttemptSubscribeFail
    \/ AttemptSpawn
    \/ StartJoin
    \/ Sleep
    \/ ListenFail(RetryLimit)
    \/ RecvGetReceiver
    \/ RecvNotified
    \/ RecvIot({ErrorEvent}, {QuietEnv}, FALSE)
SpecRetry == Init /\ [][NextRetry]_vars

\* The retry loop when every connection attempt ends: the runtime runs each
\* task that can take a step, and the transport of an open session
\* eventually fails.
FairnessRetry ==
    /\ WF_vars(AttemptCreateFail(RetryLimit) \/ AttemptSubscribeFail \/ AttemptSpawn)
    /\ WF_vars(StartJoin)
    /\ WF_vars(Sleep)
    /\ WF_vars(ListenFail(RetryLimit))
    /\ WF_vars(RecvGetReceiver)
    /\ WF_vars(RecvNotified)
SpecRetryFair == Init /\ [][NextRetry]_vars /\ FairnessRetry

\* The shadow sync engine: the first session, every inbound event, a store
\* that holds anything under each key at the start, and a store and a
\* downstream channel that may fail at a request.  `last` records the latest
\* handling.
InitialStoreValues ==
    { NoRecord,
      [form |-> "json", complete |-> FALSE, desired |-> "{\"x\":1}", version |-> 0],
      [form |-> "json", complete |-> TRUE, desired |-> "{ \"x\" : 1 }",
       version |-> MaxVersion] }
InitShadow == InitWith(InitialStoreValues, {FirstWatch}) /\ IdleProvision
NextShadow ==
    \/ AttemptSpawn
    \/ RecvGetReceiver
    \/ RecvIot(Events, HandlerEnvs, FALSE)
SpecShadow == InitShadow /\ [][NextShadow]_vars

\* The same engine over sequences of documents, recording what was forwarded
\* for each key and version.
NextHistory ==
    \/ AttemptSpawn
    \/ RecvGetReceiver
    \/ RecvIot(DocEvents, HandlerEnvs, TRUE)
InitHistory == InitWith(InitialStoreValues, Keys \X (0..MaxVersion)) /\ IdleProvision
SpecHistory == InitHistory /\ [][NextHistory]_vars

\* The activation tool: iot_fleet_provision run up to MaxRuns times over the
\* same files, with or without force, against a broker that acknowledges
\* every subscription and publishes up to MaxProvMsgs messages in a session.
InitProvision ==
    /\ InitWith({NoRecord}, {FirstWatch})
    /\ \E c \in CertPaths :
         /\ act = [NoAct EXCEPT !.cert = c]
         /\ disk \in InitialDisks(c)
    /\ prov = NoProv
    /\ ident = NoIdent
NextProvision ==
    \/ ActivateReload
    \/ ActivateProvision
    \/ ProvisionConnectFail
    \/ ProvisionConnect
    \/ ProvBrokerAck
    \/ ProvBrokerPublish(FALSE)
    \/ ProvListenEnd
    \/ ProvRecvLagged
    \/ ProvRecvStep
    \/ ProvisionJoin
SpecProvision == InitProvision /\ [][NextProvision]_vars

\* The same against a broker that may publish anything at any time: a
\* certificate nobody asked for, the response to the registration of another
\* template.
NextProvisionAny ==
    \/ ActivateReload
    \/ ActivateProvision
    \/ ProvisionConnectFail
    \/ ProvisionConnect
    \/ ProvBrokerAck
    \/ ProvBrokerPublish(TRUE)
    \/ ProvListenEnd
    \/ ProvRecvLagged
    \/ ProvRecvStep
    \/ ProvisionJoin
SpecProvisionAny == InitProvision /\ [][NextProvisionAny]_vars

\* The activation tool under activate, with its interrupt signal, against a
\* broker that answers every request once, with accepted or with rejected,
\* and sends packets and publishes nobody asked for.
NextProvisionReject ==
    \/ ActivateInterrupt
    \/ ActivateReload
    \/ ActivateProvision
    \/ ProvisionConnectFail
    \/ ProvisionConnect
    \/ ProvBrokerAck
    \/ ProvBrokerAnswer
    \/ ProvBrokerOther
    \/ ProvListenEnd
    \/ ProvRecvLagged
    \/ ProvRecvStep
    \/ ProvisionJoin
SpecProvisionReject == InitProvision /\ [][NextProvisionReject]_vars

\* One session of the bridge with the channel of inbound events, the queue
\* of local commands, and mqtt_ipc_post fed with every kind of message of the
\* local bus.
NextOrder ==
    \/ IpcPost
    \/ AttemptSpawn
    \/ RecvGetReceiver
    \/ BrokerDeliver
    \/ RecvIotNext
    \/ PutCmd
    \/ RecvTakeCmd
    \/ RecvPublishOk
    \/ RecvPublishFail
SpecOrder == Init /\ [][NextOrder]_vars

\* The same with the fairness of the runtime: a task that can take a step
\* takes it.  Nothing obliges the broker to send or the transport to fail.
FairnessProvision ==
    /\ WF_vars(ActivateReload \/ ActivateProvision)
    /\ WF_vars(ProvisionConnectFail \/ ProvisionConnect)
    /\ WF_vars(ProvRecvStep)
    /\ WF_vars(ProvisionJoin)
\* The identity alone, for every configuration and MAC address.
SpecIdentity ==
    /\ InitWith({NoRecord}, {FirstWatch})
    /\ disk = FreshDisk /\ act = NoAct /\ prov = NoProv
    /\ ident \in Identities
    /\ [][ThingName \/ ProvisionMac]_vars

SpecProvisionFair == InitProvision /\ [][NextProvision]_vars /\ FairnessProvision


(***************************************************************************)
(* Properties of the shadow sync engine (SpecShadow, SpecHistory).         *)
(***************************************************************************)
\* The latest event was a publish that reached post_iot_publish_msg and
\* parsed as a ShadowDocument with desired present.
LastDoc == AwsIotShadowAccept(last.payload)
LastKey == sub_topic(last.topic)
LastForwardable ==
    /\ last.class = "post"
    /\ LastDoc.ok
    /\ LastDoc.desired.some
LastStored == AwsIotShadowAccept(last.before)

\* C1: a document with desired present, handled while the lookup under its
\* flattened key returned a record that parses and whose version is >= the
\* incoming version, sends no Notify, and its raw payload is still sent to
\* the store under that key (whenever the store's channel takes the
\* request), where it replaces the stored record once the store answers.
C1_StaleNotForwardedButStored ==
    ( /\ LastForwardable
      /\ last.answered
      /\ last.before # NoRecord
      /\ LastStored.ok
      /\ LastStored.version >= LastDoc.version )
    => /\ last.notifies = <<>>
       /\ dbOpen => last.sets = <<[key |-> LastKey, val |-> last.payload]>>
       /\ last.ok => store[LastKey] = last.payload

\* A stale document (stored version above the incoming one) was handled:
\* nothing was forwarded and the stored record was overwritten by it.
C1_Witness ==
    /\ LastForwardable
    /\ last.answered
    /\ LastStored.ok
    /\ LastStored.version > LastDoc.version
    /\ last.notifies = <<>>
    /\ last.ok
    /\ store[LastKey] = last.payload
    /\ last.before # last.payload

\* C2: a document with desired present, handled while the store held no
\* record under its flattened key or one with a strictly smaller version,
\* sends exactly one Notify (the downstream channel being open), whose
\* topic is the flattened key followed by "state" and whose payload is the
\* serialized desired value.
C2_FreshForwardedOnce ==
    ( /\ LastForwardable
      /\ subOpen
      /\ \/ last.before = NoRecord
         \/ LastStored.ok /\ LastStored.version < LastDoc.version )
    => last.notifies =
         << [topic |-> LastKey \o <<"state">>,
             msg |-> json_to_string(json_from_str(last.payload.desired).val)] >>

\* The scenario of the specification: no prior record at
\* aws/kap/shadow/name1/update, the payload is stored and {"x":1} forwarded
\* on aws/kap/shadow/name1/update/state.
C2_Witness ==
    /\ LastForwardable
    /\ last.topic = <<"$aws", "things", "dev1", "shadow", "name1", "update", "accepted">>
    /\ last.before = NoRecord
    /\ last.payload.desired = "{ \"x\" : 1 }"
    /\ last.notifies = << [topic |-> <<"aws/kap", "shadow", "name1", "update", "state">>,
                          msg |-> "{\"x\":1}"] >>
    /\ store[LastKey] = last.payload

\* C3 as claimed: whatever the store does, no <<key, version>> is forwarded
\* more than once.
C3_AtMostOncePerVersion == fwdCount <= 1

\* C3: as long as every store request was answered and the versions of a
\* key arrived in non-decreasing order, no <<key, version>> of that key is
\* forwarded more than once.
C3_AtMostOnceWhenCalm == calm => fwdCount <= 1

\* The same version arrived twice with desired present and was forwarded once.
C3_Witness == calm /\ arrivals = 2 /\ fwdCount = 1

\* C4: a publish whose topic contains /get/rejected, /update/rejected or
\* /delete/rejected sends no Notify, reads and writes nothing in the store,
\* is answered Ok, and leaves the receive task in its loop.
C4_RejectedDropped ==
    ( /\ last.class # "none"
      /\ \/ topic_find(last.topic, "get", "rejected")
         \/ topic_find(last.topic, "update", "rejected")
         \/ topic_find(last.topic, "delete", "rejected") )
    => /\ last.notifies = <<>>
       /\ last.gets = <<>>
       /\ last.sets = <<>>
       /\ last.ret = "ok"
       /\ recv = "select"

\* A rejected publish carrying a document that an accepted topic would forward.
C4_Witness ==
    /\ last.topic \in RejectedTopics
    /\ LastDoc.ok /\ LastDoc.desired.some
    /\ last.ret = "ok"
    /\ last.notifies = <<>>
    /\ recv = "select"

(***************************************************************************)
(* Properties of the retry loop (SpecRetry).                               *)
(***************************************************************************)
\* C5 as claimed: when every attempt fails, the loop has made exactly 100
\* connection attempts when it gives up.
C5_HundredAttempts ==
    (pc = "returned" /\ result = "budget" /\ opened = 0) => attempts = RetryLimit

\* C5: the loop makes at most 99 connection attempts; it gives up after
\* exactly 99; while fewer than 99 were made it goes on to the next one; and
\* when every attempt fails, giving up is the only way it returns.
C5_NinetyNineAttempts ==
    /\ attempts <= RetryLimit - 1
    /\ (pc = "returned" /\ result = "budget") => attempts = RetryLimit - 1
    /\ (pc = "sleep" /\ attempts < RetryLimit - 1) => ~RetryExhausted(retry + 1)
    /\ (pc = "sleep" /\ attempts = RetryLimit - 1) => RetryExhausted(retry + 1)
    /\ (pc = "returned" /\ opened = 0) => result = "budget"

\* Every attempt failed and the loop gave up.
C5_Witness ==
    pc = "returned" /\ result = "budget" /\ opened = 0 /\ attempts = RetryLimit - 1

(***************************************************************************)
(* Properties of a connection attempt and its two tasks (Spec, SpecFair).  *)
(***************************************************************************)
\* A command that post_ipc_msg turns into a publish.
Publishable(c) ==
    \/ c.kind = "RawUpdate"
    \/ c.kind = "ShadowUpdate" /\ json_from_str(c.msg).ok

\* C6 as claimed: no command that can be published is taken from the queue
\* and then given up: each one is on the queue, awaited, or published.
C6_NoCommandLost ==
    \A i \in dropped : ~Publishable(cmds[i])

\* C7: the commands published come out in the order in which they were put
\* on the queue, over every reconnect.
C7_OrderPreserved ==
    \A i, j \in 1..Len(published) :
        i < j => published[i].id < published[j].id

\* Two commands published in different attempts, a reconnect between them.
C7_Witness ==
    \E i, j \in 1..Len(published) :
        /\ i < j
        /\ published[i].attempt < published[j].attempt

\* C8: the tasks alive belong to one attempt, and none is alive whenever
\* the loop is about to open a session, sleeps or has returned.
C8_OnePairAlive ==
    /\ Cardinality({ a[1] : a \in alive }) <= 1
    /\ pc # "running" => alive = {}

\* The pair of the second attempt is alive, the first pair having ended.
C8_Witness == alive = {<<2, "recv">>, <<2, "listen">>}

\* C9 as claimed: once either task has ended, mqtt_dedicated_start returns
\* the queue.
C9_EitherEndReturns ==
    (pc = "running" /\ (recv = "done" \/ listen = "done"))
        ~> (pc = "sleep" /\ rx = "caller")

\* C9: once the listener task has ended, mqtt_dedicated_start returns the
\* queue to its caller.
C9_ListenerEndReturns ==
    (pc = "running" /\ listen = "done") ~> (pc = "sleep" /\ rx = "caller")

\* The listener ended first, the receive task left on the signal, and the
\* queue is back with the retry loop.
C9_Witness ==
    pc = "sleep" /\ rx = "caller" /\ recvExit = "notified" /\ queue # <<>>

\* C10: once the listener task has ended, the receive task ends.
C10_CancelReachesRecv ==
    (pc = "running" /\ listen = "done") ~> (recv = "done")

\* The signal was raised before the receive task reached its select, and the
\* receive task left on it.
C10_Witness ==
    recv = "done" /\ recvExit = "notified" /\ cancelAt = "start"

(***************************************************************************)
(* Error handling of the connection manager (Spec, SpecRetry).             *)
(***************************************************************************)
\* C11 as claimed: the receive task leaves its loop only on the
\* cancellation signal or on an Exit command; no inbound event and no
\* ShadowUpdate or RawUpdate command makes the loop break.
C11_OnlyExitEndsRecv ==
    recvExit \in {"none", "notified", "exit"}

\* C12 as claimed: mqtt_dedicated_create_start returns only when the retry
\* budget is used up; no connect, subscribe, publish or event-loop failure
\* makes it return at once.
C12_TransportErrorsRetry ==
    pc = "returned" => result = "budget"

(***************************************************************************)
(* Properties of the provisioning flow and of the credential files         *)
(* (SpecProvision, SpecProvisionAny, SpecProvisionFair).                   *)
(***************************************************************************)
\* The accepted topic of the configured template, written out.
ConfiguredAccepted ==
    <<"$aws/provisioning-templates/", "tmplA", "/provision/json/accepted">>

\* C13: Save is called only on a message on the accepted topic of the
\* configured template, after a certificate was received and parsed, and
\* nothing else writes a file; a message on the accepted topic of another
\* template neither disconnects nor saves nor ends the task; and a message on
\* the configured accepted topic while no certificate is held ends the task
\* with an error, which the flow returns, and writes no file.
C13_SaveOnlyAfterBoth ==
    /\ "save" \in prov.lastDid =>
          /\ prov.lastEv.type = "publish"
          /\ prov.lastEv.topic = ConfiguredAccepted
          /\ prov.gotBefore /\ prov.parsed
    /\ prov.wrote > 0 => "save" \in prov.lastDid
    /\ (prov.lastEv.type = "publish" /\ prov.lastEv.topic # ConfiguredAccepted) =>
          /\ prov.lastDid \cap {"disconnect", "save", "return"} = {}
          /\ prov.wrote = 0
    /\ (prov.lastEv.type = "publish" /\ prov.lastEv.topic = ConfiguredAccepted
          /\ ~prov.gotBefore) =>
          /\ prov.recv = "done"
          /\ ~prov.res.ok
          /\ prov.wrote = 0
          /\ (act.pc = "returned" /\ act.ran) => ~act.result.ok

\* The response to the registration arrived after a certificate and the
\* credential was saved.
C13_Witness ==
    /\ "save" \in prov.lastDid
    /\ prov.res.ok
    /\ prov.wrote = 3

\* The requests published on the certificate-create request topic.
CreateRequests ==
    Cardinality({ i \in 1..Len(prov.pubs) :
                    prov.pubs[i].topic = <<"$aws/certificates/create/json", "", "">> })

\* C14: the subscriptions are issued in the order create-accepted,
\* create-rejected, template-accepted, template-rejected, each one on the
\* acknowledgment of the one before it, and the empty request is published on
\* the fourth acknowledgment and on every later one, never earlier.
C14_SubscribeInOrder ==
    LET order == << <<"$aws/certificates/create/json", "", "/accepted">>,
                    <<"$aws/certificates/create/json", "", "/rejected">>,
                    <<"$aws/provisioning-templates/", "tmplA", "/provision/json/accepted">>,
                    <<"$aws/provisioning-templates/", "tmplA", "/provision/json/rejected">> >>
    IN  /\ Len(prov.subs) <= 4
        /\ \A i \in 1..Len(prov.subs) :
              /\ prov.subs[i].topic = order[i]
              /\ prov.subs[i].after = i - 1
              /\ i > 1 => prov.subs[i].on = prov.subs[i - 1].pkid
        /\ CreateRequests = (IF prov.acks >= 4 THEN prov.acks - 3 ELSE 0)
        /\ CreateRequests > 0 => Len(prov.subs) = 4 /\ prov.acked = 4

\* The four subscriptions were acknowledged and the request was published.
C14_Witness ==
    /\ Len(prov.subs) = 4
    /\ prov.acks = 4
    /\ CreateRequests = 1

\* C15 as claimed: once the transport task has ended while the
\* event-processing task has no result, mqtt_provision_task returns, with an
\* error.
C15_TransportFailureReturns ==
    (prov.listen = "done" /\ prov.recv = "loop")
        ~> (act.pc = "returned" /\ ~act.result.ok)

\* C16: the network flow runs exactly when the dedicated credential does not
\* verify or force is set; otherwise no session is opened, no file is
\* written, and what is returned is what the metadata file holds.
C16_FlowIffNeeded ==
    act.runs > 0 =>
        /\ act.ran <=> (~act.verified \/ act.force)
        /\ ~act.ran =>
              /\ act.pc = "returned"
              /\ ~act.force
              /\ \A f \in {act.cert, DedicatedPrivate, DedicatedCa} :
                    disk[f].kind \notin {"missing", "empty"}
              /\ act.conns = 0
              /\ act.writes = 0
              /\ act.result.ok =>
                    LET info == disk[info_path(act.cert)]
                    IN  /\ info.kind = "json"
                        /\ act.result.id = info.id
                        /\ info.issueTime = <<"rfc3339", act.result.time[1],
                                              act.result.time[2]>>

\* The credential verified, force was not set, and Reload gave the identity.
C16_Witness ==
    /\ act.runs > 0
    /\ ~act.ran
    /\ act.result.ok

\* C17: after a Save that succeeded, Reload of the same certificate path
\* gives the certificateId and the issueTime that Save returned.
C17_SaveReloadRoundTrip ==
    /\ ("save" \in prov.lastDid /\ prov.res.ok) =>
          /\ reload(disk, act.cert).ok
          /\ reload(disk, act.cert).id = prov.res.id
          /\ reload(disk, act.cert).time = prov.res.time
    /\ (act.pc = "returned" /\ ~act.ran /\ act.saved.ok) =>
          /\ act.result.ok
          /\ act.result.id = act.saved.id
          /\ act.result.time = act.saved.time

\* One run saved a credential and the next run reloaded it.
C17_Witness ==
    /\ act.pc = "returned"
    /\ ~act.ran
    /\ act.saved.ok
    /\ act.result.ok

\* C18 as claimed: the certificate file, the private-key file and the
\* metadata file never hold material of different credentials.
C18_OneCredentialOnDisk ==
    LET files == { act.cert, DedicatedPrivate, info_path(act.cert) }
        held  == { f \in files : disk[f].kind \in {"pem", "key", "json"} }
    IN  \A f, g \in held : disk[f].id = disk[g].id

(***************************************************************************)
(* Properties of the translation of local commands (Spec).                 *)
(***************************************************************************)
\* C19: a message matched by kap/aws/shadow/* becomes a ShadowUpdate, one
\* matched by kap/aws/raw/* a RawUpdate, with the topic the channel without
\* the three segments before the '*' and the payload unchanged; and the
\* message on kap/aws/shadow/name1/update is published on
\* $aws/things/{thing}/shadow/name1/update/update.
C19_BusToCommand ==
    /\ \A i \in 1..Len(cmds) :
         LET c == cmds[i]
         IN  /\ c.bus.pattern = <<"kap", "aws", "shadow", "*">> =>
                   c.kind = "ShadowUpdate"
             /\ c.bus.pattern = <<"kap", "aws", "raw", "*">> =>
                   c.kind = "RawUpdate"
             /\ c.kind # "Exit" =>
                   /\ Len(c.bus.pattern) = 4
                   /\ <<"kap", "aws", c.bus.channel[3]>> \o c.topic = c.bus.channel
                   /\ c.msg = c.bus.payload
    /\ \A j \in 1..Len(published) :
         cmds[published[j].id].bus.channel = <<"kap", "aws", "shadow", "name1", "update">>
             => published[j].topic =
                    <<"$aws", "things", "dev1", "shadow", "name1", "update", "update">>

\* The message on kap/aws/shadow/name1/update was published.
C19_Witness ==
    \E j \in 1..Len(published) :
        /\ cmds[published[j].id].kind = "ShadowUpdate"
        /\ cmds[published[j].id].bus.channel =
               <<"kap", "aws", "shadow", "name1", "update">>

\* C20: a RawUpdate is published on $aws/{topic} with its msg as the
\* payload, unwrapped; the message on kap/aws/raw/custom/topic is published
\* on $aws/custom/topic with the payload it had on the bus.
C20_RawPassedThrough ==
    \A j \in 1..Len(published) :
        LET c == cmds[published[j].id]
        IN  c.kind = "RawUpdate" =>
              /\ published[j].topic = <<"$aws">> \o c.topic
              /\ ~published[j].payload.wrapped
              /\ published[j].payload.raw = c.msg
              /\ c.bus.channel = <<"kap", "aws", "raw", "custom", "topic">> =>
                    /\ published[j].topic = <<"$aws", "custom", "topic">>
                    /\ published[j].payload.raw = c.bus.payload

\* The message on kap/aws/raw/custom/topic was published.
C20_Witness ==
    \E j \in 1..Len(published) :
        /\ cmds[published[j].id].kind = "RawUpdate"
        /\ cmds[published[j].id].bus.channel =
               <<"kap", "aws", "raw", "custom", "topic">>


(***************************************************************************)
(* Properties of the backoff of the retry loop (SpecRetry, SpecRetryFair). *)
(***************************************************************************)
\* C21: the n-th connection attempt is followed by a sleep of n*30 seconds,
\* whether it failed to open or opened a session that dropped, and the
\* counter goes up by one per attempt and is never set back: while an attempt
\* runs or has just ended the counter is the number of the attempt, and once
\* its sleep is over the sleep was 30 times that number and the counter is
\* one more.
C21_SleepGrowsWithAttempt ==
    /\ pc \in {"running", "sleep"} => retry = attempts
    /\ pc = "sleep" => lastSleep = 30 * (attempts - 1)
    /\ pc = "create" => retry = attempts + 1 /\ lastSleep = 30 * attempts
    /\ (pc = "returned" /\ result = "budget")
         => retry = attempts + 1 /\ lastSleep = 30 * attempts
    /\ (pc = "returned" /\ result = "start_err")
         => retry = attempts /\ lastSleep = 30 * (attempts - 1)

\* A first attempt that failed to open and a second one whose session dropped:
\* the second sleep was of 60 seconds and the counter stands at 3.
C21_Witness ==
    /\ pc = "create"
    /\ attempts = 2 /\ opened = 1 /\ startup = FullStartup
    /\ lastSleep = 60 /\ retry = 3

\* C22: when every attempt ends, mqtt_dedicated_create_start returns, and
\* what it returns is an error.
C22_TerminatesWithError ==
    /\ <>(pc = "returned")
    /\ [](pc = "returned" => result \in {"budget", "start_err"})

\* The loop gave up after sessions were opened and dropped.
C22_Witness ==
    pc = "returned" /\ result = "budget" /\ opened = RetryLimit - 1

(***************************************************************************)
(* Properties of the join and of the error handling of the provisioning    *)
(* flow (SpecProvision).                                                   *)
(***************************************************************************)
\* C23: mqtt_provision_task, once its two tasks are spawned, returns only
\* after both have ended, and returns the result of the event-processing
\* task whatever the transport task ended with.
C23_JoinGivesRecvResult ==
    /\ (act.pc = "flow" /\ prov.recv # "none")
         => act.result = NoResult
    /\ (act.pc = "returned" /\ act.ran /\ prov.recv # "none")
         => /\ prov.recv = "done" /\ prov.listen = "done"
            /\ act.result = prov.res

\* The event task saved the credential, the transport task failed, and the
\* flow returned the certificate id.
C23_Witness ==
    /\ act.pc = "returned" /\ act.ran
    /\ prov.listenRes \in {"err", "panic"}
    /\ act.result.ok
    /\ act.result = act.saved

\* C24 as claimed: a publish of the broker on the certificate-create-accepted
\* topic or on the accepted topic of the template whose payload does not
\* parse is dropped: the flow goes on and the session is not disconnected.
C24_MalformedDropped ==
    ( /\ prov.lastEv.type = "publish"
      /\ \/ /\ prov.lastEv.topic = CreateAccepted
            /\ ~certificate_from_slice(prov.lastEv.payload).ok
         \/ /\ prov.lastEv.topic = ConfiguredAccepted
            /\ ~thing_from_slice_ok(prov.lastEv.payload) )
    => /\ prov.lastDid = {}
       /\ prov.res = NoResult

(***************************************************************************)
(* Properties of the startup of a connection attempt (Spec).               *)
(***************************************************************************)
\* The place of a step in the startup of the latest attempt, 0 when the
\* step was not taken.
StepAt(step) ==
    IF \E i \in 1..Len(startup) : startup[i] = step
    THEN CHOOSE i \in 1..Len(startup) : startup[i] = step
    ELSE 0
Before(a, b) == StepAt(b) > 0 => (StepAt(a) > 0 /\ StepAt(a) < StepAt(b))

\* C25: in every attempt the session is opened only after Verify succeeded,
\* shadow/# is subscribed before jobs/#, the pull topics are published only
\* after both subscriptions succeeded and the two tasks are spawned only
\* after that; the tasks run only after the whole startup; and an attempt
\* whose Verify failed opens no session.
C25_StartupInOrder ==
    [][ attempts' # attempts =>
          /\ LET tried == startup' IN
             /\ tried[1] \in {"verify", "verify_fail"}
             /\ tried[1] = "verify_fail" => Len(tried) = 1 /\ opened' = opened
             /\ \A i \in 1..Len(tried) : tried[i] = "connect" => opened' = opened + 1
          /\ (pc' = "running") = (StepAt("spawn")' > 0)
          /\ Before("verify", "connect")'
          /\ Before("verify", "connect_fail")'
          /\ Before("connect", "sub_shadow")'
          /\ Before("connect", "sub_shadow_fail")'
          /\ Before("sub_shadow", "sub_jobs")'
          /\ Before("sub_shadow", "sub_jobs_fail")'
          /\ Before("sub_jobs", "pull")'
          /\ Before("pull", "spawn")' ]_vars

\* A whole startup: verify, connect, the two subscriptions, the pull
\* publishes, and the two tasks running.
C25_Witness ==
    /\ pc = "running" /\ recv = "select" /\ listen = "running"
    /\ startup = <<"verify", "connect", "sub_shadow", "sub_jobs", "pull", "spawn">>

\* C26 as claimed: once Verify of the dedicated credential has failed in
\* mqtt_dedicated_create, no further connection attempt is made.
C26_VerifyFailureNotRetried ==
    [][ startup = <<"verify_fail">> => attempts' = attempts ]_vars

(***************************************************************************)
(* Properties of the version-deduplication engine, continued (SpecShadow). *)
(***************************************************************************)
\* C27: a publish with an empty payload, and a publish whose topic holds
\* neither get/accepted nor update/accepted, reads nothing from the store,
\* writes nothing to it, sends no Notify, and the handler returns Ok.
C27_EmptyAndUnacceptedIgnored ==
    ( /\ last.class \notin {"none", "recv_error", "other_packet"}
      /\ \/ last.payload.form = "empty"
         \/ ~ \E i \in 1..(Len(last.topic) - 1) :
                /\ last.topic[i] \in {"get", "update"}
                /\ last.topic[i + 1] = "accepted" )
    => /\ last.gets = <<>>
       /\ last.sets = <<>>
       /\ last.notifies = <<>>
       /\ last.ret = "ok"

\* A publish on update/delta carrying a document that an accepted topic
\* would forward.
C27_Witness ==
    /\ last.topic = <<"$aws", "things", "dev1", "shadow", "name", "n1", "update", "delta">>
    /\ LastDoc.ok /\ LastDoc.desired.some
    /\ last.ret = "ok"
    /\ last.gets = <<>> /\ last.sets = <<>> /\ last.notifies = <<>>

\* The 4th, 5th and 6th segments of a topic, as many as it has.
Segments4to6(t) ==
    [i \in 1..(IF Len(t) >= 6 THEN 3 ELSE IF Len(t) > 3 THEN Len(t) - 3 ELSE 0)
        |-> t[i + 3]]

\* C28: the flattened key of a topic is aws/kap followed by its 4th, 5th
\* and 6th segments (fewer when the topic is shorter), it is the key of every
\* request sent to the store, and it is the same for any thing name.
C28_FlattenedKey ==
    /\ \A t \in InTopics :
         /\ sub_topic(t) = <<"aws/kap">> \o Segments4to6(t)
         /\ sub_topic([t EXCEPT ![3] = "dev2"]) = sub_topic(t)
    /\ sub_topic(<<"$aws", "things", "dev1", "shadow", "name1", "update", "accepted">>)
         = <<"aws/kap", "shadow", "name1", "update">>
    /\ sub_topic(<<"$aws", "things", "dev1", "jobs">>) = <<"aws/kap", "jobs">>
    /\ \A i \in 1..Len(last.gets) : last.gets[i] = <<"aws/kap">> \o Segments4to6(last.topic)
    /\ \A i \in 1..Len(last.sets) :
         last.sets[i].key = <<"aws/kap">> \o Segments4to6(last.topic)

\* The scenario of the specification: the document published on
\* $aws/things/dev1/shadow/name1/update/accepted was looked up and written at
\* aws/kap/shadow/name1/update.
C28_Witness ==
    /\ last.topic = <<"$aws", "things", "dev1", "shadow", "name1", "update", "accepted">>
    /\ last.gets = << <<"aws/kap", "shadow", "name1", "update">> >>
    /\ last.sets # <<>>
    /\ last.sets[1].key = <<"aws/kap", "shadow", "name1", "update">>

C30_LookupFailureForwards ==
    ( /\ LastForwardable
      /\ subOpen
      /\ \/ last.gets = <<>>
         \/ ~last.answered
         \/ last.before = NoRecord
         \/ ~LastStored.ok )
    => last.notifies =
         << [topic |-> LastKey \o <<"state">>,
             msg |-> json_to_string(json_from_str(last.payload.desired).val)] >>

\* The answer of the store was lost while it held a record of a version not
\* below the incoming one, and the document was forwarded.
C30_Witness ==
    /\ LastForwardable
    /\ last.gets # <<>> /\ ~last.answered
    /\ LastStored.ok /\ LastStored.version >= LastDoc.version
    /\ last.notifies # <<>>


(***************************************************************************)
(* Properties of the local bus and of the device identity (SpecOrder,      *)
(* SpecIdentity).                                                          *)
(***************************************************************************)
\* C33 as claimed: for a message without a pattern, for no message, and for
\* a message whose payload cannot be read as a string, mqtt_ipc_post puts
\* nothing on the outbound queue and returns Ok.
C33_MalformedBusDropped ==
    ( /\ bus.seen
      /\ \/ bus.msg = NoBusMsg
         \/ bus.msg.pattern = NoPattern
         \/ ~bus.msg.readable )
    => bus.ok /\ ~bus.sent

\* The MAC address is made of ASCII characters.
IsAsciiMac == \A i \in 1..Len(ident.mac) : ident.mac[i] # "U+00C9"
NotColon(c) == c # ":"
\* Every letter in lower case and every colon removed.
Normalized(mac) ==
    LET kept == SelectSeq(mac, NotColon)
    IN  [i \in 1..Len(kept) |-> IF kept[i] = "A" THEN "a" ELSE kept[i]]

C31_PostErrorNotFatal ==
    (last.class = "post" /\ ~last.ok)
    => /\ last.ret = "ok"
       /\ recv = "select"
       /\ recvExit = "none"

\* The Set of a document was sent and its answer lost; the receive task goes on.
C31_Witness ==
    /\ last.class = "post" /\ ~last.ok
    /\ last.sets = <<[key |-> LastKey, val |-> last.payload]>>
    /\ store[LastKey] # last.payload
    /\ last.ret = "ok" /\ recv = "select"

\* C32: a ShadowUpdate is published on $aws/things/{thing}/shadow/{topic}/update
\* with state.reported the parsed msg and a clientToken made of the seconds
\* and the milliseconds of the clock; a ShadowUpdate whose msg is not JSON is
\* taken from the queue, fails in post_ipc_msg and is never published.
C32_ShadowUpdateWrapped ==
    /\ \A j \in 1..Len(published) :
         LET c == cmds[published[j].id]
             out == published[j]
         IN  c.kind = "ShadowUpdate" =>
               /\ out.topic = <<"$aws", "things", "dev1", "shadow">> \o c.topic \o <<"update">>
               /\ out.payload.wrapped
               /\ c.msg \in {"{\"x\":1}", "{ \"x\" : 1 }"} => out.payload.reported = "obj_x1"
               /\ c.msg \notin {"oops"}
               /\ out.payload.raw = ""
               /\ Len(out.payload.clientToken) = 2
               /\ out.payload.clientToken[1] = 1700000000
               /\ out.payload.clientToken[2] \in 0..999
    /\ \A i \in 1..Len(cmds) :
         (cmds[i].kind = "ShadowUpdate" /\ cmds[i].msg = "oops")
           => /\ inflight.id # i
              /\ (\A k \in 1..Len(queue) : queue[k] # i) => i \in dropped

\* One ShadowUpdate published with its wrapped payload, and one that was not
\* JSON given up.
C32_Witness ==
    /\ \E j \in 1..Len(published) :
         /\ cmds[published[j].id].kind = "ShadowUpdate"
         /\ cmds[published[j].id].msg = "{ \"x\" : 1 }"
         /\ published[j].payload.reported = "obj_x1"
         /\ published[j].payload.clientToken = <<1700000000, 5>>
    /\ \E i \in dropped : cmds[i].kind = "ShadowUpdate" /\ cmds[i].msg = "oops"

\* C37 as claimed: once the receive task has taken Exit from the queue,
\* mqtt_dedicated_create_start opens no further broker session.
C37_ExitStopsBridge ==
    [][ recvExit = "exit" => opened' = opened ]_vars

\* C40: a payload on an accepted topic that is JSON but no ShadowDocument (a
\* member is missing, or the version does not fit 0..65535) sends no request
\* to the store and no Notify, leaves the record of its key as it was, and
\* the receive task goes on.
C40_UnparsableLeftAlone ==
    ( /\ last.class = "post"
      /\ \/ ~last.payload.complete
         \/ last.payload.version \notin 0..65535 )
    => /\ last.gets = <<>> /\ last.sets = <<>> /\ last.notifies = <<>>
       /\ store[LastKey] = last.before
       /\ last.ret = "ok"
       /\ recv = "select"

\* A document of version 65536 with desired present arrived on a key that
\* holds a record: nothing was forwarded and the record is the one it was.
C40_Witness ==
    /\ last.class = "post"
    /\ last.payload.complete /\ last.payload.version = 65536
    /\ last.payload.desired = "{ \"x\" : 1 }"
    /\ last.before # NoRecord
    /\ store[LastKey] = last.before
    /\ last.notifies = <<>> /\ last.sets = <<>>
    /\ recv = "select"

\* C38 as claimed: with a store that answers every request, once a document
\* of a version was forwarded or stored for a key, no document of that
\* version or a lower one is forwarded for the key.
C38_ForwardedVersionsIncrease == mono.working => ~mono.late

\* C38: the same as long as, besides, the versions of the key arrive in
\* non-decreasing order.
C38_IncreaseWhenInOrder == calm => ~mono.late

\* The watched document was forwarded or stored, the same version arrived
\* again with desired present, and nothing of it was forwarded again.
C38_Witness == calm /\ mono.base /\ arrivals = 2 /\ fwdCount <= 1 /\ ~mono.late

(***************************************************************************)
(* Order of the inbound events (SpecOrder), the interrupt of activate and *)
(* the rejections of the broker (SpecProvisionReject).                     *)
(***************************************************************************)
\* C34: in one session the receive task takes the inbound events in the
\* order of their delivery, what their handling sends (Get, Notify, Set)
\* comes out in that order, one event wholly before the next, and while a
\* local command is being published no event is handled, nothing is sent
\* and the store is not written.
C34_OneEventAtATime ==
    [][ /\ \A i, j \in 1..Len(inbound'.outs) :
             i < j => inbound'.outs[i].n <= inbound'.outs[j].n
        /\ \A i \in 1..Len(inbound'.q) : \A j \in 1..Len(inbound'.outs) :
             inbound'.outs[j].n < inbound'.q[i].n
        /\ recv = "ipc" => /\ inbound'.outs = inbound.outs
                           /\ store' = store
                           /\ last' = last
        /\ inbound'.outs # inbound.outs => /\ recv = "select"
                                           /\ inflight = NoFlight
                                           /\ inflight' = NoFlight ]_vars

\* Two events were handled, the first forwarded and stored before the second
\* was stored, while a third waits behind a local command being published.
C34_Witness ==
    /\ recv = "ipc"
    /\ Len(inbound.q) = 1 /\ inbound.q[1].n = 3
    /\ \E i, j, k \in 1..Len(inbound.outs) :
         /\ i < j /\ j < k
         /\ inbound.outs[i] = [n |-> 1, op |-> "notify"]
         /\ inbound.outs[j] = [n |-> 1, op |-> "set"]
         /\ inbound.outs[k] = [n |-> 2, op |-> "set"]

\* C35 as claimed: once the interrupt has won the race in activate, no file
\* of the credential is written.
C35_NoWriteAfterInterrupt ==
    [][ act.signal => disk' = disk ]_vars

=============================================================================
